---- MODULE Spec2Model ----
(***************************************************************************)
(* Model of the incremental ingestion pipeline of rag-a-muffin             *)
(* (app/services/rag_service.py): RAGService.__init__,                     *)
(* RAGService._process_documents and RAGService.update_vector_store, with  *)
(* the DocumentStatus ledger (app/models.py), its SQLAlchemy session and   *)
(* the two Chroma collections (kb, code).                                  *)
(***************************************************************************)
EXTENDS Bags, FiniteSets, Integers, Naturals, Sequences, TLC

(***************************************************************************)
(* Bounds of the model.                                                    *)
(***************************************************************************)
\* number of changes made to the document trees / index directories
MaxEdits == 1
\* number of calls of update_vector_store
MaxRuns == 3

(***************************************************************************)
(* The environment: files, contents, hashes.                               *)
(***************************************************************************)
Cats == {"kb", "code"}

\* files that can exist under Config.KNOWLEDGE_BASE_DIR / Config.CODE_BASE_DIR
KbPaths == {"kb/a", "kb/b"}
CodePaths == {"code/a", "code/b"}
Paths == KbPaths \cup CodePaths

Absent == "absent"

\* kinds of file content:
\*   v1, v2   two different readable texts
\*   empty    a file of zero bytes
\*   corrupt  bytes that the loader / the utf-8 decoder rejects
\*   fault    a readable file whose processing raises an exception that is
\*            not one of the "binary" messages of the except branch
\*   locked   a file listed by os.walk that open() cannot read
Contents == {"v1", "v2", "empty", "corrupt", "fault", "locked"}

\* the directory scanned for a file type
DirOf(ft) == IF ft = "kb" THEN KbPaths ELSE CodePaths

\* hashlib.md5 of the file bytes (one digest per content, no collision)
HashOf == [c \in Contents |->
             CASE c = "v1" -> "md5_1" [] c = "v2" -> "md5_2"
               [] c = "empty" -> "md5_e" [] c = "corrupt" -> "md5_c"
               [] c = "fault" -> "md5_f" [] OTHER -> "md5_l"]

\* open(file_path, 'rb') of _calculate_file_hash succeeds
Readable(c) == c # "locked"

_calculate_file_hash(c) == HashOf[c]

\* number of chunks a readable text is split into
Parts(c) == CASE c = "v1" -> 1..2 [] c = "v2" -> 1..1 [] OTHER -> {}

\* the chunks produced from content c of file p in a pass of type ft
\* (source and file_type are set by _add_hierarchical_metadata)
ChunksOf(p, ft, c) ==
    {[source |-> p, file_type |-> ft, content |-> c, part |-> i] : i \in Parts(c)}

\* _load_document followed by the text splitter: every loader exception is
\* caught inside _load_document and an empty list is returned
KbChunks(p, c) == IF c \in {"corrupt", "empty"} THEN {} ELSE ChunksOf(p, "kb", c)

\* outcome of the try block of phase 3 for one file:
\* "ok" (no exception), "skipped" (decode message), "error" (other exception)
TryOutcome(ft, c) ==
    CASE c = "fault" -> "error"
      [] ft = "code" /\ c = "corrupt" -> "skipped"
      [] OTHER -> "ok"

\* chunks appended to all_chunks_to_add_in_this_run for one file
FileChunks(p, ft, c) ==
    IF TryOutcome(ft, c) # "ok" THEN {}
    ELSE IF ft = "kb" THEN KbChunks(p, c) ELSE ChunksOf(p, "code", c)

(***************************************************************************)
(* State.                                                                  *)
(***************************************************************************)
VARIABLES
    disk,          \* path -> content or Absent
    mtime,         \* path -> modification time of the file
    index,         \* file type -> bag of chunks held by the Chroma collection
    ledger,        \* committed DocumentStatus rows
    session,       \* DocumentStatus rows as seen through db.session
    constructed,   \* a RAGService object exists
    any_db_reset,  \* RAGService._any_db_reset
    pc,            \* position inside update_vector_store
    file_type,     \* the pass _process_documents is in
    files_to_add_or_update_paths,
    files_to_delete_from_db_paths,
    preLedger,     \* committed ledger when the run started
    preIndex,      \* index when the run started
    outcome,       \* what happened last: none / committed / aborted / changed
    failure,       \* what raised in the run that aborted last, if no
                   \* commit and no disk change happened since
    added,         \* chunks handed to add_documents in the run
    selected,      \* files put into files_to_add_or_update_paths in the run
    add_calls,     \* calls of add_documents made by the current pass
    mode,          \* value of outcome when the run started
    edits,         \* number of changes made by the environment
    runs,          \* number of runs started; the clock of indexed_at
    meta,          \* one document passing through the metadata tagging
    startup,       \* the process started by run.py or by rag_service.py
    conc,          \* the runs of update_vector_store made by two processes
    chunker,       \* one source file passing through _split_code_into_chunks
    sheet,         \* one workbook passing through the spreadsheet branch
    web            \* the conversations, their messages and the requests
                   \* that the threads of the server are handling

vars == <<disk, mtime, index, ledger, session, constructed, any_db_reset, pc,
          file_type, files_to_add_or_update_paths,
          files_to_delete_from_db_paths, preLedger, preIndex, outcome,
          failure, added, selected, add_calls, mode, edits, runs,
          meta, startup, conc, chunker, sheet, web>>

\* the parts of the state that the single-process pipeline does not touch
aux == <<meta, startup, conc, chunker, sheet, web>>
Off == [pc |-> "off"]

envVars == <<disk, mtime>>
runLocal == <<file_type, files_to_add_or_update_paths,
              files_to_delete_from_db_paths>>
history == <<preLedger, preIndex, added, selected, add_calls, mode>>

(***************************************************************************)
(* Chroma collection: a bag of chunks; add_documents gives every document  *)
(* a fresh id, so the same chunk can be held more than once.               *)
(***************************************************************************)
\* variant: the filter matches no document
DeleteWhereSource_no_match(bag, p) == bag

\* db_instance.delete(where={"source": p})
DeleteWhereSource(bag, p) ==
    [ch \in {d \in DOMAIN bag : d.source # p} |-> bag[ch]]

RECURSIVE DeleteSources(_, _)
DeleteSources(bag, ps) ==
    IF ps = {} THEN bag
    ELSE LET p == CHOOSE q \in ps : TRUE
         IN DeleteSources(DeleteWhereSource(bag, p), ps \ {p})

\* variant: add_documents stores nothing
AddDocuments_nothing(bag, chunks) == bag

\* db_instance.add_documents(chunks)
AddDocuments(bag, chunks) == bag (+) SetToBag(chunks)

\* len(chroma_db.get(include=[])['ids'])
Count(bag) == BagCardinality(bag)

\* the chunks of the collection whose source is p
ChunksAt(bag, p) == [ch \in {d \in DOMAIN bag : d.source = p} |-> bag[ch]]

(***************************************************************************)
(* DocumentStatus rows.                                                    *)
(***************************************************************************)
Row(p, ft, st, mt, h, now, err) ==
    [file_path |-> p, file_type |-> ft, status |-> st, last_modified |-> mt,
     file_hash |-> h, indexed_at |-> now, error_message |-> err]

\* DocumentStatus.query.filter_by(file_type=ft).all() keyed by path
stored_db_status(sess, ft) == {r \in sess : r.file_type = ft}

HasEntry(stored, p) == \E r \in stored : r.file_path = p
Entry(stored, p) == CHOOSE r \in stored : r.file_path = p

\* the scan of _get_current_files: every file present under the directory
current_files_on_disk(ft) == {p \in DirOf(ft) : disk[p] # Absent}

(***************************************************************************)
(* Phase 1 of _process_documents: change detection.                        *)
(***************************************************************************)
\* variant: the change is detected by the modification time
needs_processing_by_mtime(flag, stored, p, h) ==
    IF flag THEN TRUE
    ELSE IF HasEntry(stored, p)
         THEN \/ mtime[p] # Entry(stored, p).last_modified
              \/ Entry(stored, p).status # "indexed"
         ELSE TRUE

\* variant: the reset flag is not consulted
needs_processing_no_reset(flag, stored, p, h) ==
    IF HasEntry(stored, p)
    THEN \/ h # Entry(stored, p).file_hash
         \/ Entry(stored, p).status # "indexed"
    ELSE TRUE

\* variant: a row with an equal hash is left alone whatever its status
needs_processing_by_hash_only(flag, stored, p, h) ==
    IF flag THEN TRUE
    ELSE IF HasEntry(stored, p)
         THEN h # Entry(stored, p).file_hash
         ELSE TRUE

\* the value of needs_processing for a scanned file with hash h
needs_processing(flag, stored, p, h) ==
    IF flag THEN TRUE
    ELSE IF HasEntry(stored, p)
         THEN \/ h # Entry(stored, p).file_hash
              \/ Entry(stored, p).status # "indexed"
         ELSE TRUE

\* files_to_add_or_update_paths after the loop of phase 1
ToIndex(flag, stored, scanned) ==
    {p \in scanned : needs_processing(flag, stored, p, _calculate_file_hash(disk[p]))}

\* variant: the set starts empty instead of holding the stored paths
ToDelete_none(stored, scanned) == {}

\* variant: a scanned path is not taken out of the set
ToDelete_all_stored(stored, scanned) == {r.file_path : r \in stored}

\* files_to_delete_from_db_paths after the loop of phase 1
ToDelete(stored, scanned) == {r.file_path : r \in stored} \ scanned

(***************************************************************************)
(* Phase 3 of _process_documents: ledger rows of the processed files.      *)
(***************************************************************************)
StatusOf(oc) == IF oc = "ok" THEN "indexed" ELSE oc

\* variant: the message of the except branch is dropped
MessageOf_null(oc) == "null"

MessageOf(oc) ==
    CASE oc = "ok" -> "null"
      [] oc = "skipped" -> "File is binary or malformed, skipped for text processing."
      [] OTHER -> "str(e)"

\* variant: a new DocumentStatus is added for every processed file
WriteRow_always_new(sess, stored, p, row) == sess \cup {row}

\* the row written for file p: updated in place when the file has an entry,
\* a new DocumentStatus otherwise
WriteRow(sess, stored, p, row) ==
    IF HasEntry(stored, p)
    THEN (sess \ {Entry(stored, p)}) \cup {row}
    ELSE sess \cup {row}

RECURSIVE ProcessFiles(_, _, _, _, _)
ProcessFiles(sess, stored, ft, todo, now) ==
    IF todo = {} THEN sess
    ELSE LET p == CHOOSE q \in todo : TRUE
             oc == TryOutcome(ft, disk[p])
             row == Row(p, ft, StatusOf(oc), mtime[p],
                        _calculate_file_hash(disk[p]), now, MessageOf(oc))
         IN ProcessFiles(WriteRow(sess, stored, p, row), stored, ft,
                         todo \ {p}, now)

\* all_chunks_to_add_in_this_run at the end of the loop of phase 3
AllChunks(ft, todo) == UNION {FileChunks(p, ft, disk[p]) : p \in todo}

\* variant: one add_documents call per file
AddCalls_per_file(chunks) == Cardinality({ch.source : ch \in chunks})

\* number of add_documents calls of a pass: one bulk call, none when
\* all_chunks_to_add_in_this_run is empty
AddCalls(chunks) == IF chunks = {} THEN 0 ELSE 1

\* variant: no source is cleared before the upsert
SourcesToClear_none(chunks) == {}

\* sources_to_clear_in_chroma
SourcesToClear(chunks) == {ch.source : ch \in chunks}

(***************************************************************************)
(* update_vector_store: the except branch.                                 *)
(***************************************************************************)
\* variant: the handler commits what is pending
ExceptHandler_commit(committed, pending) == pending

\* db.session.rollback(): the pending changes are dropped
ExceptHandler(committed, pending) == committed

Abort(cause, idx, pending) ==
    /\ index' = idx
    /\ ledger' = ExceptHandler(ledger, pending)
    /\ session' = ExceptHandler(ledger, pending)
    /\ pc' = "idle"
    /\ outcome' = "aborted"
    /\ failure' = cause

\* the pass after file type ft
NextPass(ft) ==
    IF ft = "kb"
    THEN /\ pc' = "phase1"
         /\ file_type' = "code"
    ELSE /\ pc' = "commit"
         /\ file_type' = ft

(***************************************************************************)
(* Initial state: a fresh deployment, no ledger row and no collection yet;  *)
(* the document trees may already hold readable files.                     *)
(***************************************************************************)
Mtimes == {"t0", "t1"}

Init ==
    /\ disk \in [Paths -> {Absent, "v1"}]
    /\ mtime = [p \in Paths |-> "t0"]
    /\ index = [ft \in Cats |-> EmptyBag]
    /\ ledger = {}
    /\ session = {}
    /\ constructed = FALSE
    /\ any_db_reset = FALSE
    /\ pc = "idle"
    /\ file_type = "kb"
    /\ files_to_add_or_update_paths = {}
    /\ files_to_delete_from_db_paths = {}
    /\ preLedger = {}
    /\ preIndex = [ft \in Cats |-> EmptyBag]
    /\ outcome = "none"
    /\ failure = "none"
    /\ added = {}
    /\ selected = {}
    /\ add_calls = 0
    /\ mode = "none"
    /\ edits = 0
    /\ runs = 0
    /\ meta = Off
    /\ startup = Off
    /\ conc = Off
    /\ chunker = Off
    /\ sheet = Off
    /\ web = Off

(***************************************************************************)
(* The environment changes the document trees between runs.                *)
(***************************************************************************)
EnvStep ==
    /\ pc = "idle"
    /\ edits < MaxEdits
    /\ runs < MaxRuns
    /\ edits' = edits + 1
    /\ outcome' = "changed"
    /\ failure' = "none"
    /\ UNCHANGED <<aux, ledger, session, any_db_reset, pc, runLocal, history, runs>>

\* a file is created or its content replaced; the mtime may stay the same
WriteFile ==
    /\ EnvStep
    /\ \E p \in Paths, c \in Contents, m \in Mtimes :
         /\ disk[p] # c
         /\ disk' = [disk EXCEPT ![p] = c]
         /\ mtime' = [mtime EXCEPT ![p] = m]
    /\ UNCHANGED <<index, constructed>>

\* the mtime of a file changes, its content does not
Touch ==
    /\ EnvStep
    /\ \E p \in Paths, m \in Mtimes :
         /\ disk[p] # Absent
         /\ mtime[p] # m
         /\ mtime' = [mtime EXCEPT ![p] = m]
    /\ UNCHANGED <<disk, index, constructed>>

RemoveFile ==
    /\ EnvStep
    /\ \E p \in Paths :
         /\ disk[p] # Absent
         /\ disk' = [disk EXCEPT ![p] = Absent]
    /\ UNCHANGED <<mtime, index, constructed>>

\* the persist directory of one collection is deleted; the process that
\* held it is gone
ResetIndex ==
    /\ EnvStep
    /\ \E ft \in Cats :
         /\ index[ft] # EmptyBag
         /\ index' = [index EXCEPT ![ft] = EmptyBag]
    /\ constructed' = FALSE
    /\ UNCHANGED <<disk, mtime>>

(***************************************************************************)
(* RAGService.__init__                                                     *)
(***************************************************************************)
\* _get_or_create_vector_store: second component of the result
was_reset_or_empty(bag) == Count(bag) = 0

Construct ==
    /\ pc = "idle"
    /\ runs < MaxRuns
    /\ constructed' = TRUE
    /\ any_db_reset' = (was_reset_or_empty(index["kb"]) \/ was_reset_or_empty(index["code"]))
    /\ UNCHANGED <<aux, disk, mtime, index, ledger, session, pc, runLocal, history,
                   outcome, failure, edits, runs>>

(***************************************************************************)
(* RAGService.update_vector_store                                          *)
(***************************************************************************)
StartRun ==
    /\ pc = "idle"
    /\ constructed
    /\ runs < MaxRuns
    /\ runs' = runs + 1
    /\ pc' = "phase1"
    /\ file_type' = "kb"
    /\ files_to_add_or_update_paths' = {}
    /\ files_to_delete_from_db_paths' = {}
    /\ preLedger' = ledger
    /\ preIndex' = index
    /\ mode' = outcome
    /\ outcome' = "running"
    /\ failure' = failure
    /\ added' = {}
    /\ selected' = {}
    /\ add_calls' = 0
    /\ UNCHANGED <<aux, disk, mtime, index, ledger, session, constructed,
                   any_db_reset, edits>>

\* phase 1: scan, hash every scanned file, classify
Phase1 ==
    /\ pc = "phase1"
    /\ LET scanned == current_files_on_disk(file_type)
           stored == stored_db_status(session, file_type)
       IN IF \E p \in scanned : ~Readable(disk[p])
          THEN /\ Abort("hash", index, session)
               /\ UNCHANGED <<runLocal, selected>>
          ELSE /\ files_to_add_or_update_paths' = ToIndex(any_db_reset, stored, scanned)
               /\ files_to_delete_from_db_paths' = ToDelete(stored, scanned)
               /\ selected' = selected \cup ToIndex(any_db_reset, stored, scanned)
               /\ pc' = "phase2"
               /\ UNCHANGED <<index, ledger, session, file_type, outcome, failure>>
    /\ add_calls' = 0
    /\ UNCHANGED <<aux, disk, mtime, constructed, any_db_reset, preLedger, preIndex,
                   added, mode, edits, runs>>

\* the session after the rows of the paths in ps were deleted
DeleteRows(sess, stored, ps) ==
    sess \ {r \in stored : r.file_path \in ps}

\* phase 2: delete the chunks and the row of every file that is gone;
\* a delete of the vector store can raise
Phase2 ==
    /\ pc = "phase2"
    /\ LET stored == stored_db_status(session, file_type)
           gone == files_to_delete_from_db_paths
       IN \/ /\ index' = [index EXCEPT ![file_type] = DeleteSources(@, gone)]
             /\ session' = DeleteRows(session, stored, gone)
             /\ pc' = "phase3"
             /\ UNCHANGED <<ledger, outcome, failure>>
          \/ \E done \in SUBSET gone :
               /\ done # gone
               /\ Abort("delete",
                        [index EXCEPT ![file_type] = DeleteSources(@, done)],
                        DeleteRows(session, stored, done))
    /\ UNCHANGED <<aux, disk, mtime, constructed, any_db_reset, runLocal, preLedger,
                   preIndex, added, selected, add_calls, mode, edits, runs>>

\* phase 3: process every file to index, then clear the sources of the new
\* chunks and add the chunks in one add_documents call
Phase3 ==
    /\ pc = "phase3"
    /\ LET stored == stored_db_status(session, file_type)
           todo == files_to_add_or_update_paths
           pending == ProcessFiles(session, stored, file_type, todo, runs)
           chunks == AllChunks(file_type, todo)
           sources == SourcesToClear(chunks)
       IN IF chunks = {}
          THEN /\ session' = pending
               /\ NextPass(file_type)
               /\ add_calls' = AddCalls(chunks)
               /\ UNCHANGED <<index, ledger, outcome, failure, added>>
          ELSE \/ /\ index' = [index EXCEPT ![file_type] =
                                 AddDocuments(DeleteSources(@, sources), chunks)]
                  /\ session' = pending
                  /\ added' = added \cup chunks
                  /\ add_calls' = AddCalls(chunks)
                  /\ NextPass(file_type)
                  /\ UNCHANGED <<ledger, outcome, failure>>
               \/ /\ \E done \in SUBSET sources :
                       /\ done # sources
                       /\ Abort("delete",
                                [index EXCEPT ![file_type] = DeleteSources(@, done)],
                                pending)
                  /\ UNCHANGED <<file_type, added, add_calls>>
               \/ /\ Abort("upsert",
                           [index EXCEPT ![file_type] = DeleteSources(@, sources)],
                           pending)
                  /\ add_calls' = AddCalls(chunks)
                  /\ UNCHANGED <<file_type, added>>
    /\ UNCHANGED <<aux, disk, mtime, constructed, any_db_reset,
                   files_to_add_or_update_paths, files_to_delete_from_db_paths,
                   preLedger, preIndex, selected, mode, edits, runs>>

\* db.session.commit() at the end of the try block
Commit ==
    /\ pc = "commit"
    /\ ledger' = session
    /\ pc' = "idle"
    /\ outcome' = "committed"
    /\ failure' = "none"
    /\ UNCHANGED <<aux, disk, mtime, index, session, constructed, any_db_reset,
                   runLocal, history, edits, runs>>

Next ==
    \/ WriteFile
    \/ Touch
    \/ RemoveFile
    \/ ResetIndex
    \/ Construct
    \/ StartRun
    \/ Phase1
    \/ Phase2
    \/ Phase3
    \/ Commit

Spec == Init /\ [][Next]_vars

(***************************************************************************)
(* Properties of the ingestion pipeline.                                   *)
(***************************************************************************)
TypeOfPath(p) == IF p \in KbPaths THEN "kb" ELSE "code"

RowsAt(rows, p) == {r \in rows : r.file_path = p}

\* the content whose digest is h
ContentOfHash(h) == CHOOSE c \in Contents : HashOf[c] = h

\* the chunk set the pipeline produces from the file p as it is on disk
CurrentChunks(p) == FileChunks(p, TypeOfPath(p), disk[p])

\* the run that just ended, or is in progress, started right after a
\* committed run with no change on disk in between
SecondRun == mode = "committed"

\* C1: a run that follows a committed run with no disk change in between
\* hands no chunk to the vector index and leaves every ledger row as it was.
C1_Idempotence ==
    SecondRun => (added = {} /\ ledger = preLedger)

\* C2: after a committed run, for every ledger row with status 'indexed'
\* the chunks of the index whose source is the row's path are exactly the
\* chunks produced from the content whose hash the row stores.
C2_LedgerIndexConsistency ==
    outcome = "committed" =>
      \A r \in ledger :
        r.status = "indexed" =>
          ChunksAt(index[r.file_type], r.file_path)
            = SetToBag(FileChunks(r.file_path, r.file_type, ContentOfHash(r.file_hash)))

\* C3: after a committed run, a file that had a ledger row and is not on
\* disk has no chunk in any index and no ledger row.
C3_DeletionCompleteness ==
    outcome = "committed" =>
      \A p \in Paths :
        (disk[p] = Absent /\ RowsAt(preLedger, p) # {}) =>
          /\ RowsAt(ledger, p) = {}
          /\ \A ft \in Cats : ChunksAt(index[ft], p) = EmptyBag

\* a committed run removed the row and the chunks of a file that is gone
C3_Witness ==
    /\ outcome = "committed"
    /\ \E p \in Paths :
         /\ disk[p] = Absent
         /\ RowsAt(preLedger, p) # {}
         /\ ChunksAt(preIndex[TypeOfPath(p)], p) # EmptyBag
         /\ RowsAt(ledger, p) = {}

\* the classification of the current pass has just been computed
Classified == pc = "phase2"

C5_ColdStartReindex ==
    (Classified /\ any_db_reset) =>
      files_to_add_or_update_paths = current_files_on_disk(file_type)

\* a file with an 'indexed' row and an unchanged hash is selected because
\* an index was empty at construction while the ledger had rows
C5_Witness ==
    /\ Classified
    /\ any_db_reset
    /\ ledger # {}
    /\ \E ft \in Cats : Count(preIndex[ft]) = 0
    /\ \E p \in files_to_add_or_update_paths :
         LET stored == stored_db_status(session, file_type)
         IN /\ HasEntry(stored, p)
            /\ Entry(stored, p).status = "indexed"
            /\ Entry(stored, p).file_hash = _calculate_file_hash(disk[p])

\* the rows written by the run that just committed
WrittenRows == {r \in ledger : r.indexed_at = runs}

\* C6: in a committed run every processed file that loads is 'indexed' with
\* its chunks upserted, and every processed file whose load fails has a row
\* that is not 'indexed' ('error'; 'skipped' is accepted here for a code
\* file that does not decode).
C6_ErrorIsolation ==
    outcome = "committed" =>
      \A r \in WrittenRows :
        LET c == disk[r.file_path]
        IN IF c \in {"corrupt", "fault"}
           THEN \/ r.status = "error"
                \/ r.file_type = "code" /\ r.status = "skipped"
           ELSE /\ r.status = "indexed"
                /\ ChunksOf(r.file_path, r.file_type, c) \subseteq added

\* C7: when the bulk upsert raises, nothing is committed and the vector
\* index still holds every chunk it held before the run.
C7_PreRunStateOnUpsertFailure ==
    (outcome = "aborted" /\ failure = "upsert") =>
      /\ ledger = preLedger
      /\ \A ft \in Cats : preIndex[ft] \sqsubseteq index[ft]

\* C8: after a run that raised before its commit, the committed ledger is
\* the ledger of before the run.
C8_LedgerRollback ==
    outcome = "aborted" => (ledger = preLedger /\ session = preLedger)

\* a run aborted in the code pass after the kb pass had upserted chunks and
\* written rows in the session
C8_Witness ==
    /\ outcome = "aborted"
    /\ file_type = "code"
    /\ \E ch \in added : ch.file_type = "kb"
    /\ \E p \in KbPaths : disk[p] # Absent /\ RowsAt(ledger, p) = {}

\* the run that just committed started right after an aborted run, with no
\* disk change in between
HealingRunDone == mode = "aborted" /\ outcome = "committed"

HasCurrentChunksOnce(p) ==
    ChunksAt(index[TypeOfPath(p)], p) = SetToBag(CurrentChunks(p))

HasCurrentRow(p) ==
    /\ RowsAt(ledger, p) # {}
    /\ \A r \in RowsAt(ledger, p) : r.file_hash = _calculate_file_hash(disk[p])

SelectedByRun(p) == p \in selected

C10_PerFileFailuresConfined ==
    outcome = "aborted" => failure \in {"delete", "upsert"}

\* C11: after a committed run, a file whose processing failed in that run
\* (row written with status 'error' or 'skipped') has no chunk left in the
\* index.
C11_StaleChunksRemovedOnFailure ==
    outcome = "committed" =>
      \A r \in WrittenRows :
        r.status \in {"error", "skipped"} =>
          ChunksAt(index[r.file_type], r.file_path) = EmptyBag

\* C12: in every state the chunks an index holds for one source are those of
\* one version of the file, each held once.
C12_DeleteBeforeUpsert ==
    \A ft \in Cats, p \in Paths :
      LET held == ChunksAt(index[ft], p)
      IN /\ \A ch \in DOMAIN held : held[ch] = 1
         /\ \A c1, c2 \in DOMAIN held : c1.content = c2.content

\* a file whose chunks of an earlier version were in the index was upserted
\* again with another content
C12_Witness ==
    /\ outcome = "committed"
    /\ \E new \in added :
         \E old \in DOMAIN ChunksAt(preIndex[new.file_type], new.source) :
           old.content # new.content

IndexWriteFailed == failure \in {"delete", "upsert"}

\* the run in progress follows a run that a vector-store failure aborted,
\* with no disk change in between, and has just classified its files
RetryClassified == Classified /\ mode = "aborted" /\ IndexWriteFailed

\* the chunks the file yields are not what the index holds for it
ChunksNotWritten(p) ==
    /\ CurrentChunks(p) # {}
    /\ ChunksAt(index[TypeOfPath(p)], p) # SetToBag(CurrentChunks(p))

\* C13: after a vector-store failure the ledger is the one of before the
\* run (no row of the failed run is committed), and every file whose chunks
\* were not written is selected by the next run.
C13_IndexWriteFailure ==
    /\ (outcome = "aborted" /\ IndexWriteFailed) => ledger = preLedger
    /\ RetryClassified =>
         \A p \in current_files_on_disk(file_type) :
           ChunksNotWritten(p) => p \in files_to_add_or_update_paths

\* C14: the classification of a pass: the files to delete are the committed
\* ledger paths of the category that are not on disk, every scanned path
\* without a row is to index, only scanned paths are to index, and no path is
\* in both sets.
C14_ChangeClassification ==
    Classified =>
      LET scanned == current_files_on_disk(file_type)
          rows == {r \in ledger : r.file_type = file_type}
      IN /\ files_to_delete_from_db_paths
              = {p \in Paths : RowsAt(rows, p) # {} /\ disk[p] = Absent}
         /\ \A p \in scanned :
              RowsAt(ledger, p) = {} => p \in files_to_add_or_update_paths
         /\ files_to_add_or_update_paths \subseteq scanned
         /\ files_to_add_or_update_paths \cap files_to_delete_from_db_paths = {}

\* a pass with a file to delete and a file to index
C14_Witness ==
    /\ Classified
    /\ files_to_delete_from_db_paths # {}
    /\ files_to_add_or_update_paths # {}

\* a pass of _process_documents has just returned
PassDone == (pc = "phase1" /\ file_type = "code") \/ pc = "commit"

PassOf == IF pc = "commit" THEN "code" ELSE "kb"

\* C16: a pass calls add_documents at most once, with all its chunks, and
\* not at all when it produced no chunk.
C16_Batching ==
    /\ add_calls <= 1
    /\ PassDone =>
         LET chunks == AllChunks(PassOf, files_to_add_or_update_paths)
         IN IF chunks = {} THEN add_calls = 0
            ELSE add_calls = 1 /\ chunks \subseteq added

\* one call carried the chunks of two files
C16_Witness ==
    /\ PassDone
    /\ add_calls = 1
    /\ Cardinality({ch.source : ch \in
                      AllChunks(PassOf, files_to_add_or_update_paths)}) >= 2

\* C18: in a committed run a processed file whose content does not decode
\* gets a row with status 'skipped', in both categories.
C18_UndecodableSkipped ==
    outcome = "committed" =>
      \A r \in WrittenRows :
        disk[r.file_path] = "corrupt" => r.status = "skipped"

\* C19: the ledger, committed or pending, holds at most one row per path.
C19_OneRowPerPath ==
    \A p \in Paths :
      /\ Cardinality(RowsAt(ledger, p)) <= 1
      /\ Cardinality(RowsAt(session, p)) <= 1

\* a committed run rewrote the row of a path that already had one
C19_Witness ==
    /\ outcome = "committed"
    /\ \E p \in Paths :
         /\ RowsAt(preLedger, p) # {}
         /\ RowsAt(ledger, p) # {}
         /\ RowsAt(ledger, p) # RowsAt(preLedger, p)

\* the chunks of the content whose hash a row stores
ChunksOfRow(r) == FileChunks(r.file_path, r.file_type, ContentOfHash(r.file_hash))

\* C28: the ledger is never ahead of the index.  While a run is in progress,
\* and after a run that stopped at any step, the committed ledger is the one
\* of before the run; a run that commits leaves every older row as it was,
\* and every row it commits as 'indexed' with hash h has the chunks of the
\* content with hash h handed to add_documents before, and held by the
\* index of its category.
C28_LedgerNeverAhead ==
    /\ pc # "idle" => ledger = preLedger
    /\ outcome = "aborted" => ledger = preLedger
    /\ outcome = "committed" =>
         \A r \in ledger :
           /\ r \notin WrittenRows => r \in preLedger
           /\ (r \in WrittenRows /\ r.status = "indexed") =>
                /\ ChunksOfRow(r) \subseteq added
                /\ ChunksOfRow(r) \subseteq DOMAIN index[r.file_type]

\* a run commits a row 'indexed' for a file that has chunks, next to a row
\* of an earlier run
C28_Witness ==
    /\ outcome = "committed"
    /\ \E r \in WrittenRows : r.status = "indexed" /\ ChunksOfRow(r) # {}
    /\ \E r \in ledger : r \notin WrittenRows

\* the committed row of a file on disk is 'error' or 'skipped' and stores
\* the hash of the present content
NotIndexedSameHash(rows, p) ==
    \E r \in RowsAt(rows, p) :
      /\ r.status \in {"error", "skipped"}
      /\ r.file_hash = _calculate_file_hash(disk[p])

\* C29: a scanned file whose row is 'error' or 'skipped' is selected by every
\* run, also with an unchanged hash, and a run that commits rewrites its row;
\* a scanned file whose row is 'indexed' with the current hash is selected
\* exactly when the service found a collection empty at construction.
C29_RetryOfNonIndexed ==
    /\ Classified =>
         \A p \in current_files_on_disk(file_type) :
           LET stored == stored_db_status(session, file_type)
           IN /\ (HasEntry(stored, p)
                   /\ Entry(stored, p).status \in {"error", "skipped"})
                   => p \in files_to_add_or_update_paths
              /\ (HasEntry(stored, p)
                   /\ Entry(stored, p).status = "indexed"
                   /\ Entry(stored, p).file_hash
                        = _calculate_file_hash(disk[p]))
                   => (p \in files_to_add_or_update_paths <=> any_db_reset)
    /\ outcome = "committed" =>
         \A p \in Paths :
           (disk[p] # Absent /\ NotIndexedSameHash(preLedger, p)) =>
             \A r \in RowsAt(ledger, p) : r.indexed_at = runs

\* a service that found both collections filled selects a file whose row is
\* 'error' or 'skipped' with the hash of the present content
C29_Witness ==
    /\ Classified
    /\ ~any_db_reset
    /\ \E p \in current_files_on_disk(file_type) :
         /\ NotIndexedSameHash(ledger, p)
         /\ p \in files_to_add_or_update_paths

\* the digests that _calculate_file_hash can return
Digests == {HashOf[c] : c \in Contents}

\* C31: every row written by the pipeline has a status among indexed, error
\* and skipped (never 'pending' or 'deleted'), a non-null hash equal to the
\* content hash of the file when it was processed, and a null error_message
\* exactly when its status is 'indexed'.
C31_RowWellFormed ==
    /\ \A r \in session \cup ledger :
         /\ r.status \in {"indexed", "error", "skipped"}
         /\ r.file_hash \in Digests
         /\ (r.error_message = "null" <=> r.status = "indexed")
    /\ outcome = "committed" =>
         \A r \in WrittenRows :
           /\ disk[r.file_path] # Absent
           /\ r.file_hash = _calculate_file_hash(disk[r.file_path])

\* a committed run wrote an 'indexed' row and a row that is not 'indexed'
C31_Witness ==
    /\ outcome = "committed"
    /\ \E r \in WrittenRows : r.status = "indexed"
    /\ \E r \in WrittenRows : r.status \in {"error", "skipped"}

(***************************************************************************)
(* The other specifications keep the single-process pipeline parked.       *)
(***************************************************************************)
pipeline == <<disk, mtime, index, ledger, session, constructed, any_db_reset,
              pc, file_type, files_to_add_or_update_paths,
              files_to_delete_from_db_paths, preLedger, preIndex, outcome,
              failure, added, selected, add_calls, mode, edits, runs>>

\* everything of the pipeline but the document trees
ParkedRun ==
    /\ mtime = [p \in Paths |-> "t0"]
    /\ index = [ft \in Cats |-> EmptyBag]
    /\ ledger = {}
    /\ session = {}
    /\ constructed = FALSE
    /\ any_db_reset = FALSE
    /\ pc = "idle"
    /\ file_type = "kb"
    /\ files_to_add_or_update_paths = {}
    /\ files_to_delete_from_db_paths = {}
    /\ preLedger = {}
    /\ preIndex = [ft \in Cats |-> EmptyBag]
    /\ outcome = "none"
    /\ failure = "none"
    /\ added = {}
    /\ selected = {}
    /\ add_calls = 0
    /\ mode = "none"
    /\ edits = 0
    /\ runs = 0

Parked ==
    /\ disk = [p \in Paths |-> Absent]
    /\ ParkedRun

(***************************************************************************)
(* Metadata of one chunk.  A path is the sequence of its components; the   *)
(* names are strings, so that a leading dot and an extension are read off  *)
(* the name itself.                                                        *)
(***************************************************************************)
\* bound: number of directories between the category root and the file
MaxDepth == 4

DirNames == {"proj", "lib", ".git"}
FileNames == {"main.py", ".env", "Logo.PNG", "~$a.docx", "Ventes.xlsx"}

\* Python's None; no directory or file of the model bears this name
None == "None"

\* Config.KNOWLEDGE_BASE_DIR and Config.CODE_BASE_DIR: absolute paths
KNOWLEDGE_BASE_DIR == <<"srv", "kb_documents">>
CODE_BASE_DIR == <<"srv", "codebase">>

\* str.startswith
startswith(s, prefix) ==
    Len(s) >= Len(prefix) /\ SubSeq(s, 1, Len(prefix)) = prefix

\* os.path.normpath on components: "" and "." vanish, ".." takes back the
\* component before it
RECURSIVE normpath(_)
normpath(p) ==
    IF p = << >> THEN << >>
    ELSE LET front == normpath(SubSeq(p, 1, Len(p) - 1))
             last == p[Len(p)]
         IN IF last \in {"", "."} THEN front
            ELSE IF last = ".." /\ front # << >> /\ front[Len(front)] # ".."
                 THEN SubSeq(front, 1, Len(front) - 1)
                 ELSE Append(front, last)

\* os.path.abspath of a path that is absolute already
abspath(p) == normpath(p)

RECURSIVE CommonPrefixLen(_, _)
CommonPrefixLen(a, b) ==
    IF a = << >> \/ b = << >> THEN 0
    ELSE IF Head(a) # Head(b) THEN 0
         ELSE 1 + CommonPrefixLen(Tail(a), Tail(b))

\* os.path.relpath
relpath(path, start) ==
    LET a == abspath(path)
        b == abspath(start)
        k == CommonPrefixLen(a, b)
        rel == [i \in 1..(Len(b) - k) |-> ".."] \o SubSeq(a, k + 1, Len(a))
    IN IF rel = << >> THEN <<".">> ELSE rel

\* os.path.basename
basename(p) == p[Len(p)]

\* os.sep.join of the components of a relative path
RECURSIVE join(_)
join(p) ==
    IF p = << >> THEN ""
    ELSE IF Len(p) = 1 THEN p[1] ELSE p[1] \o "/" \o join(Tail(p))

\* the string of an absolute path
rooted(p) == "/" \o join(p)

\* os.path.splitext(...)[0]: the name up to its last dot, a leading dot
\* not counted
RECURSIVE LastDot(_, _)
LastDot(s, i) ==
    IF i = 0 THEN 0
    ELSE IF SubSeq(s, i, i) = "." THEN i ELSE LastDot(s, i - 1)

splitext_root(s) ==
    LET d == LastDot(s, Len(s)) IN IF d <= 1 THEN s ELSE SubSeq(s, 1, d - 1)

\* a metadata dict: a function from its keys to their values
EmptyDict == [k \in {} |-> None]
Put(md, key, value) ==
    [k \in DOMAIN md \cup {key} |-> IF k = key THEN value ELSE md[k]]

\* RAGService.kb_documents_path / codebase_path as chosen by the file type
base_dir(ft) == IF ft = "kb" THEN KNOWLEDGE_BASE_DIR ELSE CODE_BASE_DIR

\* _split_code_into_chunks: the project name it puts on every chunk
project_name(file_path) ==
    LET path_parts == normpath(relpath(file_path, CODE_BASE_DIR))
    IN IF Len(path_parts) > 0 /\ ~startswith(path_parts[1], ".")
       THEN path_parts[1]
       ELSE None

\* str.lower
lower_char(c) ==
    LET upper == "ABCDEFGHIJKLMNOPQRSTUVWXYZ"
        lowercase == "abcdefghijklmnopqrstuvwxyz"
        at == {i \in 1..Len(upper) : SubSeq(upper, i, i) = c}
    IN IF at = {} THEN c
       ELSE LET i == CHOOSE j \in at : TRUE IN SubSeq(lowercase, i, i)

RECURSIVE lower(_)
lower(s) ==
    IF Len(s) = 0 THEN ""
    ELSE lower_char(SubSeq(s, 1, 1)) \o lower(SubSeq(s, 2, Len(s)))

\* os.path.splitext(...)[1]: the name from its last dot on, a leading dot
\* not counted
splitext_ext(s) ==
    LET d == LastDot(s, Len(s))
    IN IF d <= 1 THEN "" ELSE SubSeq(s, d, Len(s))

\* _load_document: the extensions read as a workbook, one document a sheet
IsSpreadsheet(file) == lower(splitext_ext(file)) \in {".xlsx", ".ods"}

\* the metadata a document has when it is created: by _load_document for a
\* knowledge-base file, by _split_code_into_chunks (a chunk of a language
\* with a ruleset) for a code file; the keys that depend on the content of
\* the file (language, line range) are left out
NewDocument(file_path, ft) ==
    IF ft = "kb" /\ IsSpreadsheet(basename(file_path))
    THEN Put(Put(Put(Put(EmptyDict,
             "source", rooted(abspath(file_path))),
             "file_type", "kb"),
             "sheet_name", "Janvier 2024"),
             "is_table_chunk", TRUE)
    ELSE IF ft = "kb"
    THEN Put(Put(EmptyDict, "source", rooted(abspath(file_path))),
             "file_type", "kb")
    ELSE Put(Put(Put(Put(Put(EmptyDict,
             "file_type", "code"),
             "entity_type", "module_top_level"),
             "entity_name", basename(file_path)),
             "imports", ""),
             "project_name", project_name(file_path))

\* variant: one more level is tagged
MAX_FOLDER_LEVELS_plus_one == 3 + 1

MAX_FOLDER_LEVELS == 3

\* the loop of _add_hierarchical_metadata over enumerate(path_components[:-1])
RECURSIVE TagFolders(_, _, _)
TagFolders(md, path_components, i) ==
    IF i > Len(path_components) - 2 THEN md
    ELSE LET component == path_components[i + 1]
             leveled == IF i < MAX_FOLDER_LEVELS
                        THEN Put(md, "folder_level_" \o ToString(i + 1),
                                 component)
                        ELSE md
             named == IF i = Len(path_components) - 2
                      THEN Put(leveled, "last_folder_name", component)
                      ELSE leveled
         IN TagFolders(named, path_components, i + 1)

\* _add_hierarchical_metadata: the value of project_name
ProjectNameOf(ft, path_components) ==
    IF /\ ft = "code"
       /\ Len(path_components) > 0
       /\ path_components[1] # ""
       /\ ~startswith(path_components[1], ".")
    THEN path_components[1]
    ELSE None

_add_hierarchical_metadata(md, file_path, ft) ==
    LET absolute_file_path == abspath(file_path)
        rel == normpath(relpath(absolute_file_path, base_dir(ft)))
        m1 == Put(md, "source", rooted(normpath(absolute_file_path)))
        m2 == Put(m1, "document_path_relative", join(rel))
        m3 == TagFolders(m2, rel, 0)
        m4 == Put(m3, "file_name", basename(file_path))
        m5 == Put(m4, "file_type", ft)
        m6 == Put(m5, "project_name", ProjectNameOf(ft, rel))
        title == IF "title" \in DOMAIN m6 /\ m6["title"] # ""
                 THEN m6["title"]
                 ELSE splitext_root(basename(file_path))
    IN Put(m6, "document_title", title)

EXCLUDED_EXTENSIONS ==
    {".jpg", ".jpeg", ".png", ".gif", ".bmp", ".tiff", ".webp",
     ".mp3", ".wav", ".ogg", ".flac", ".aac",
     ".mp4", ".avi", ".mov", ".wmv", ".flv", ".mkv",
     ".zip", ".tar", ".gz", ".rar", ".7z",
     ".exe", ".dll", ".bin", ".dat", ".so", ".dylib",
     ".ico", ".db", ".sqlite", ".log", ".bak", ".tmp",
     ".psd", ".ai", ".eps",
     ".woff", ".woff2", ".ttf", ".otf",
     ".DS_Store", "thumbs.db", "~$"}

\* _get_current_files: the test that drops a file of the walk
skipped_by_scan(file) ==
    \/ lower(splitext_ext(file)) \in EXCLUDED_EXTENSIONS
    \/ startswith(file, "~$")

\* the files a scan can meet: up to MaxDepth directories below the root
RECURSIVE DirSeqs(_)
DirSeqs(n) ==
    IF n = 0 THEN {<< >>}
    ELSE LET shorter == DirSeqs(n - 1)
         IN shorter \cup {Append(d, x) : d \in shorter, x \in DirNames}

MetaInputs ==
    {[pc |-> "on_disk", file_type |-> ft, dirs |-> d, name |-> n,
      file_path |-> base_dir(ft) \o d \o <<n>>, metadata |-> EmptyDict] :
        ft \in Cats, d \in DirSeqs(MaxDepth), n \in FileNames}

MetaInit ==
    /\ Parked
    /\ startup = Off
    /\ conc = Off
    /\ chunker = Off
    /\ sheet = Off
    /\ web = Off
    /\ meta \in MetaInputs

\* _get_current_files: os.walk visits every directory below the root and
\* the loop over its files keeps or drops each file
GetCurrentFiles ==
    /\ meta.pc = "on_disk"
    /\ meta' = [meta EXCEPT !.pc = IF skipped_by_scan(meta.name)
                                   THEN "dropped" ELSE "scanned"]
    /\ UNCHANGED <<pipeline, startup, conc, chunker, sheet, web>>

\* the loader or the code splitter creates the document of a chunk; a
\* workbook in the code tree does not decode as utf-8 and gives no chunk
CreateDocument ==
    /\ meta.pc = "scanned"
    /\ meta' = IF meta.file_type = "code" /\ IsSpreadsheet(meta.name)
               THEN [meta EXCEPT !.pc = "undecodable"]
               ELSE [meta EXCEPT !.pc = "created",
                       !.metadata = NewDocument(meta.file_path,
                                                meta.file_type)]
    /\ UNCHANGED <<pipeline, startup, conc, chunker, sheet, web>>

\* variant: a chunk joins all_chunks_to_add_in_this_run untagged
AddHierarchicalMetadata_not_called ==
    /\ meta.pc = "created"
    /\ meta' = [meta EXCEPT !.pc = "tagged"]
    /\ UNCHANGED <<pipeline, startup, conc, chunker, sheet, web>>

\* the chunk is tagged before it joins all_chunks_to_add_in_this_run
AddHierarchicalMetadata ==
    /\ meta.pc = "created"
    /\ meta' = [meta EXCEPT !.pc = "tagged",
                  !.metadata = _add_hierarchical_metadata(
                                 meta.metadata, meta.file_path, meta.file_type)]
    /\ UNCHANGED <<pipeline, startup, conc, chunker, sheet, web>>

MetaNext == GetCurrentFiles \/ CreateDocument \/ AddHierarchicalMetadata

MetaSpec == MetaInit /\ [][MetaNext]_vars

\* C20: every tagged code chunk has the key project_name, whose value is the
\* first directory of the file's path below the code root, and None when the
\* file lies directly in the code root.
C20_ProjectName ==
    (meta.pc = "tagged" /\ meta.file_type = "code") =>
      /\ "project_name" \in DOMAIN meta.metadata
      /\ meta.metadata["project_name"]
           = IF meta.dirs = << >> THEN None ELSE meta.dirs[1]

\* the path of the file as _get_current_files returns it, which is the
\* file_path of its ledger row and the value of the delete-by-source filter
LedgerKey ==
    rooted(normpath(base_dir(meta.file_type) \o meta.dirs \o <<meta.name>>))

Tagged == meta.pc = "tagged"

\* C21: every chunk that is submitted to the index carries a source equal
\* to the normalized absolute path of its file, the string of the ledger row
\* and of the delete-by-source filter, and a file_type equal to the category
\* of the pass.
C21_SourceAndCategory ==
    Tagged =>
      /\ "source" \in DOMAIN meta.metadata
      /\ meta.metadata["source"] = LedgerKey
      /\ "file_type" \in DOMAIN meta.metadata
      /\ meta.metadata["file_type"] = meta.file_type

\* a code chunk, created without a source, of a file below a directory
C21_Witness ==
    /\ Tagged
    /\ meta.file_type = "code"
    /\ meta.dirs # << >>
    /\ "source" \notin DOMAIN NewDocument(meta.file_path, meta.file_type)

folder_level(i) == "folder_level_" \o ToString(i)

Min(a, b) == IF a <= b THEN a ELSE b

\* C22: for a file with d directories between its category root and itself,
\* the chunk carries folder_level_i equal to the name of the i-th of these
\* directories, counted from the root, for every i from 1 to min(d, 3), no
\* folder_level_i for i > 3, and for d >= 1 last_folder_name equal to the
\* directory that holds the file, also when d > 3.
C22_FolderTags ==
    Tagged =>
      LET d == Len(meta.dirs)
      IN /\ \A i \in 1..Min(d, 3) :
              /\ folder_level(i) \in DOMAIN meta.metadata
              /\ meta.metadata[folder_level(i)] = meta.dirs[i]
         /\ \A i \in 4..(MaxDepth + 1) :
              folder_level(i) \notin DOMAIN meta.metadata
         /\ d >= 1 =>
              /\ "last_folder_name" \in DOMAIN meta.metadata
              /\ meta.metadata["last_folder_name"] = meta.dirs[d]

\* a file more than three directories deep, with distinct first and last
C22_Witness ==
    /\ Tagged
    /\ Len(meta.dirs) > 3
    /\ meta.dirs[1] # meta.dirs[Len(meta.dirs)]

\* the metadata keys of the conditions that chat() puts into
\* final_metadata_filter: in the knowledge-base modes file_type, and tab,
\* last_folder_name and is_table_chunk when the question names a month, a
\* brand or a table; in code_rag with a project file_type and project_name
metadata_filter_keys(rag_mode, selected_project) ==
    IF rag_mode \in {"kb_rag", "strict_rag"}
    THEN {"file_type", "tab", "last_folder_name", "is_table_chunk"}
    ELSE IF rag_mode = "code_rag" /\ selected_project # None
    THEN {"file_type", "project_name"}
    ELSE {}

\* the chunk is one that a condition on the key is meant to select: a tab
\* or a table condition scopes the chunks of a sheet, a folder condition
\* the chunks of a file that lies in a folder
ScopedBy(key) ==
    CASE key \in {"tab", "is_table_chunk"} -> IsSpreadsheet(meta.name)
      [] key = "last_folder_name" ->
           Len(normpath(relpath(abspath(meta.file_path),
                                base_dir(meta.file_type)))) > 1
      [] OTHER -> TRUE

\* the rag_mode that searches the chunks of a file type
ModesOf(ft) == IF ft = "kb" THEN {"kb_rag", "strict_rag"} ELSE {"code_rag"}

\* C35: every metadata key that the chat route uses in a vector-store filter
\* (file_type, tab, last_folder_name, is_table_chunk, project_name) is a key
\* that ingestion has set on the chunks the condition is meant to scope.
C35_FilterKeysWritten ==
    Tagged =>
      \A rag_mode \in ModesOf(meta.file_type) :
        \A key \in metadata_filter_keys(rag_mode, "proj") :
          ScopedBy(key) => key \in DOMAIN meta.metadata

\* directories that hold version-control data, caches or dependencies
IsPrunedDirectory(d) ==
    d \in {".git", ".svn", "__pycache__", "node_modules", ".rag_cache"}

\* C27: no file beneath a directory that matches the exclusion predicate is
\* in the scan result, none gets a document and none gets chunks.
C27_DirectoryPruning ==
    meta.pc \in {"scanned", "created", "tagged"} =>
      \A i \in DOMAIN meta.dirs : ~IsPrunedDirectory(meta.dirs[i])

(***************************************************************************)
(* Process start.  The repository has two entry points: run.py, which      *)
(* calls initialize_services_on_startup and then serves requests, and the  *)
(* __main__ block of rag_service.py, which builds a RAGService and calls   *)
(* update_vector_store.                                                    *)
(***************************************************************************)
\* bound: number of requests the server handles
MaxRequests == 3

EntryPoints == {"run.py", "rag_service.py"}

\* the names bound at module level in app/services/rag_service.py
rag_service_module ==
    {"os", "shutil", "hashlib", "datetime", "mimetypes", "re", "traceback",
     "PyPDFLoader", "UnstructuredWordDocumentLoader", "UnstructuredODTLoader",
     "TextLoader", "RecursiveCharacterTextSplitter", "Chroma", "Document",
     "ChatPromptTemplate", "RunnablePassthrough", "StrOutputParser",
     "List", "Dict", "Any", "Tuple", "Optional", "Config",
     "get_embeddings_llm", "db", "DocumentStatus", "openpyxl", "pyexcel_ods",
     "EXCLUDED_EXTENSIONS", "RAGService"}

\* the routes of chat_bp and the functions that handle them
Routes ==
    {"index", "get_all_conversations", "create_conversation", "chat",
     "get_conversation_messages", "delete_conversation"}

\* the names of a call sequence that a module resolves, up to the first
\* one it does not define: that lookup raises AttributeError
RECURSIVE resolved(_, _)
resolved(module, names) ==
    IF names = << >> THEN << >>
    ELSE IF Head(names) \notin module THEN << >>
         ELSE <<Head(names)>> \o resolved(module, Tail(names))

\* step 3 of initialize_services_on_startup: the functions of the module
\* app.services.rag_service that its try block calls, in order
rag_init_calls ==
    <<"initialize_vectorstore", "get_vectorstore", "get_retriever">>

StartOf(entry) ==
    [entry |-> entry,
     pc |-> IF entry = "run.py" THEN "create_all" ELSE "main_create_all",
     tables |-> FALSE,
     llm_service |-> None,
     rag_service |-> None,
     conversation_service |-> None,
     chains |-> FALSE,
     blueprint |-> FALSE,
     served |-> 0,
     chats |-> << >>,     \* the /chat requests handled so far
     calls |-> << >>]     \* the functions called so far, in order

StartupInit ==
    /\ Parked
    /\ meta = Off
    /\ conc = Off
    /\ chunker = Off
    /\ sheet = Off
    /\ web = Off
    /\ startup \in {StartOf(e) : e \in EntryPoints}

\* step 1: db.create_all(); an exception is logged and startup goes on
CreateAll ==
    /\ startup.pc = "create_all"
    /\ \E ok \in BOOLEAN :
         startup' = [startup EXCEPT !.tables = ok, !.pc = "llm",
                                    !.calls = Append(@, "db.create_all")]
    /\ UNCHANGED <<pipeline, meta, conc, chunker, sheet, web>>

\* step 2: initialize_llms and the two getters; nothing catches what the
\* constructors raise
InitializeLlms ==
    /\ startup.pc = "llm"
    /\ \E ok \in BOOLEAN :
         startup' = IF ok
                    THEN [startup EXCEPT !.llm_service = "set", !.pc = "rag",
                            !.calls = Append(@, "initialize_llms")]
                    ELSE [startup EXCEPT !.pc = "crashed",
                            !.calls = Append(@, "initialize_llms")]
    /\ UNCHANGED <<pipeline, meta, conc, chunker, sheet, web>>

\* step 3: the RAG service; the two except clauses set the same value
InitializeRag ==
    /\ startup.pc = "rag"
    /\ LET called == resolved(rag_service_module, rag_init_calls)
       IN startup' = [startup EXCEPT
                        !.rag_service = IF called = rag_init_calls
                                        THEN "set" ELSE "disabled",
                        !.pc = "conversation",
                        !.calls = @ \o called]
    /\ UNCHANGED <<pipeline, meta, conc, chunker, sheet, web>>

\* step 4: two functions are stored, none is called
InitializeConversation ==
    /\ startup.pc = "conversation"
    /\ startup' = [startup EXCEPT !.conversation_service = "set",
                                  !.pc = "chains"]
    /\ UNCHANGED <<pipeline, meta, conc, chunker, sheet, web>>

\* step 5: initialize_chains_with_app raises when the chat LLM is missing
InitializeChains ==
    /\ startup.pc = "chains"
    /\ startup' = IF startup.llm_service = None
                  THEN [startup EXCEPT !.pc = "crashed",
                          !.calls = Append(@, "initialize_chains_with_app")]
                  ELSE [startup EXCEPT !.chains = TRUE, !.pc = "blueprint",
                          !.calls = Append(@, "initialize_chains_with_app")]
    /\ UNCHANGED <<pipeline, meta, conc, chunker, sheet, web>>

\* the registration of chat_bp; app.run follows it
RegisterBlueprint ==
    /\ startup.pc = "blueprint"
    /\ startup' = [startup EXCEPT !.blueprint = TRUE, !.pc = "serving",
                                  !.calls = Append(@, "register_blueprint")]
    /\ UNCHANGED <<pipeline, meta, conc, chunker, sheet, web>>

\* the values of rag_mode in a /chat request ('fallback_rag' is the default
\* of the route) and of selected_project
RagModes == {"kb_rag", "strict_rag", "code_rag", "general", "fallback_rag"}
SelectedProjects == {None, "proj"}

\* variant: the retriever is used whatever app.extensions holds
chat_retriever_unchecked(rag_service, rag_mode, selected_project, found) ==
    IF rag_mode = "code_rag" /\ selected_project = None
    THEN <<"select_project_message">>
    ELSE <<"retriever.invoke", "general_llm_chain.invoke">>

\* the try block of chat(): what answers the request, as the sequence of
\* the calls made.  selected_prompt is set in the kb modes and, with a
\* project, in code_rag; the retriever is invoked only with a vector store
\* and a retriever in app.extensions; found tells that it returned documents
chat(rag_service, rag_mode, selected_project, found) ==
    LET selected_prompt ==
            \/ rag_mode \in {"kb_rag", "strict_rag"}
            \/ rag_mode = "code_rag" /\ selected_project # None
        retrieve ==
            rag_mode # "general" /\ rag_service = "set" /\ selected_prompt
    IN IF rag_mode = "code_rag" /\ selected_project = None
       THEN <<"select_project_message">>
       ELSE IF retrieve /\ found
       THEN <<"retriever.invoke", "rag_chain.invoke">>
       ELSE IF retrieve
       THEN <<"retriever.invoke", "general_llm_chain.invoke">>
       ELSE <<"general_llm_chain.invoke">>

\* a request is handled by the function of its route
Serve ==
    /\ startup.pc = "serving"
    /\ startup.served < MaxRequests
    /\ \E route \in Routes \ {"chat"} :
         startup' = [startup EXCEPT !.served = @ + 1,
                                    !.calls = Append(@, route)]
    /\ UNCHANGED <<pipeline, meta, conc, chunker, sheet, web>>

\* a well-formed POST /chat
ServeChat ==
    /\ startup.pc = "serving"
    /\ startup.served < MaxRequests
    /\ \E rag_mode \in RagModes, selected_project \in SelectedProjects,
          found \in BOOLEAN :
         LET made == chat(startup.rag_service, rag_mode, selected_project,
                          found)
         IN startup' = [startup EXCEPT
                          !.served = @ + 1,
                          !.chats = Append(@, [rag_mode |-> rag_mode,
                                       selected_project |-> selected_project,
                                       calls |-> made]),
                          !.calls = Append(@, "chat") \o made]
    /\ UNCHANGED <<pipeline, meta, conc, chunker, sheet, web>>

\* rag_service.py run as a script: db.create_all(), outside any try
MainCreateAll ==
    /\ startup.pc = "main_create_all"
    /\ \E ok \in BOOLEAN :
         startup' = IF ok
                    THEN [startup EXCEPT !.tables = TRUE,
                            !.pc = "main_construct",
                            !.calls = Append(@, "db.create_all")]
                    ELSE [startup EXCEPT !.pc = "crashed",
                            !.calls = Append(@, "db.create_all")]
    /\ UNCHANGED <<pipeline, meta, conc, chunker, sheet, web>>

\* RAGService(): its first statement, get_embeddings_llm(), raises when
\* initialize_llms was not called, and the script never calls it; otherwise
\* update_vector_store() follows
MainConstruct ==
    /\ startup.pc = "main_construct"
    /\ startup' = IF startup.llm_service = None
                  THEN [startup EXCEPT !.pc = "crashed",
                          !.calls = Append(@, "RAGService")]
                  ELSE [startup EXCEPT !.pc = "main_done",
                          !.calls = @ \o <<"RAGService",
                                           "update_vector_store">>]
    /\ UNCHANGED <<pipeline, meta, conc, chunker, sheet, web>>

StartupNext ==
    \/ CreateAll
    \/ InitializeLlms
    \/ InitializeRag
    \/ InitializeConversation
    \/ InitializeChains
    \/ RegisterBlueprint
    \/ Serve
    \/ ServeChat
    \/ MainCreateAll
    \/ MainConstruct

StartupSpec == StartupInit /\ [][StartupNext]_vars

\* the number of calls of a function
Calls(f) ==
    Cardinality({i \in DOMAIN startup.calls : startup.calls[i] = f})

\* a call of f came before every call of g
CalledBefore(f, g) ==
    \A j \in DOMAIN startup.calls :
      startup.calls[j] = g =>
        \E i \in 1..(j - 1) : startup.calls[i] = f

\* C15: once initialize_services_on_startup has registered the blueprint,
\* update_vector_store was called exactly once, before the registration,
\* and no request served later calls it again.
C15_StartupInvocation ==
    (startup.entry = "run.py" /\ startup.blueprint) =>
      /\ Calls("update_vector_store") = 1
      /\ CalledBefore("update_vector_store", "register_blueprint")

\* the RAG initialisation of the process raised and startup went on
RagDisabled == startup.entry = "run.py" /\ startup.rag_service = "disabled"

InSeq(x, seq) == \E i \in DOMAIN seq : seq[i] = x

\* C34, as stated: when the initialisation of the RAG service raises,
\* app.extensions['rag_service'] holds no vector store and no retriever,
\* startup goes on through the conversation service, the chains and the
\* blueprint, and every later /chat request, in any rag_mode, is answered
\* by the general LLM chain with no retriever invoked.
C34_RagFailure_Original ==
    RagDisabled =>
      \A k \in DOMAIN startup.chats :
        /\ ~InSeq("retriever.invoke", startup.chats[k].calls)
        /\ InSeq("general_llm_chain.invoke", startup.chats[k].calls)

\* C34, amended: when the initialisation of the RAG service raises, startup
\* goes on through the conversation service, the chains and the blueprint,
\* no later /chat request invokes a retriever, and every /chat
\* request is answered by the general LLM chain except a code_rag request
\* without a selected project, which gets the fixed "select a project"
\* message.
C34_RagFailure ==
    RagDisabled =>
      /\ startup.pc \in {"conversation", "chains", "blueprint", "serving"}
      /\ startup.pc = "serving" =>
           /\ startup.conversation_service = "set"
           /\ startup.chains
           /\ startup.blueprint
      /\ \A k \in DOMAIN startup.chats :
           LET c == startup.chats[k]
           IN /\ ~InSeq("retriever.invoke", c.calls)
              /\ ~InSeq("rag_chain.invoke", c.calls)
              /\ IF c.rag_mode = "code_rag" /\ c.selected_project = None
                 THEN c.calls = <<"select_project_message">>
                 ELSE c.calls = <<"general_llm_chain.invoke">>

\* with the RAG service disabled a kb request and a code request with a
\* project were answered
C34_Witness ==
    /\ RagDisabled
    /\ \E k \in DOMAIN startup.chats :
         startup.chats[k].rag_mode = "kb_rag"
    /\ \E k \in DOMAIN startup.chats :
         /\ startup.chats[k].rag_mode = "code_rag"
         /\ startup.chats[k].selected_project # None

(***************************************************************************)
(* Two processes, each with its own RAGService and its own db.session,     *)
(* call update_vector_store on the same document trees, the same Chroma    *)
(* collections and the same DocumentStatus table.  No vector-store failure *)
(* is injected here.                                                       *)
(***************************************************************************)
\* bound: number of runs one process makes
MaxConcRuns == 1

Procs == {"p1", "p2"}

concFrame == <<disk, mtime, session, constructed, any_db_reset, pc, file_type,
               files_to_add_or_update_paths, files_to_delete_from_db_paths,
               preLedger, preIndex, outcome, failure, added, selected,
               add_calls, mode, edits, runs, meta, startup,
               chunker, sheet, web>>

ConcInit ==
    /\ disk \in [Paths -> {Absent, "v1"}]
    /\ ParkedRun
    /\ meta = Off
    /\ startup = Off
    /\ chunker = Off
    /\ sheet = Off
    /\ web = Off
    /\ conc = [pc |-> [p \in Procs |-> "new"],
               file_type |-> [p \in Procs |-> "kb"],
               any_db_reset |-> [p \in Procs |-> FALSE],
               stored |-> [p \in Procs |-> {}],
               to_index |-> [p \in Procs |-> {}],
               to_delete |-> [p \in Procs |-> {}],
               written |-> [p \in Procs |-> {}],
               deleted |-> [p \in Procs |-> {}],
               inserted |-> [p \in Procs |-> {}],
               runs |-> [p \in Procs |-> 0],
               clock |-> 0]

\* RAGService() in process p
ConcConstruct(p) ==
    /\ conc.pc[p] = "new"
    /\ conc' = [conc EXCEPT
                  !.pc[p] = "idle",
                  !.any_db_reset[p] = (was_reset_or_empty(index["kb"])
                                         \/ was_reset_or_empty(index["code"]))]
    /\ UNCHANGED <<concFrame, index, ledger>>

\* update_vector_store is entered: it tests nothing before its try block
ConcStartRun(p) ==
    /\ conc.pc[p] = "idle"
    /\ conc.runs[p] < MaxConcRuns
    /\ conc' = [conc EXCEPT !.pc[p] = "phase1", !.file_type[p] = "kb",
                            !.written[p] = {}, !.deleted[p] = {},
                            !.inserted[p] = {},
                            !.runs[p] = @ + 1, !.clock = @ + 1]
    /\ UNCHANGED <<concFrame, index, ledger>>

\* phase 1 in process p: the rows are read as committed at this moment
ConcPhase1(p) ==
    /\ conc.pc[p] = "phase1"
    /\ LET ft == conc.file_type[p]
           scanned == current_files_on_disk(ft)
           stored == stored_db_status(ledger, ft)
       IN conc' = [conc EXCEPT
                     !.pc[p] = "phase2",
                     !.stored[p] = stored,
                     !.to_index[p] = ToIndex(conc.any_db_reset[p], stored,
                                             scanned),
                     !.to_delete[p] = ToDelete(stored, scanned)]
    /\ UNCHANGED <<concFrame, index, ledger>>

\* phase 2 in process p
ConcPhase2(p) ==
    /\ conc.pc[p] = "phase2"
    /\ LET ft == conc.file_type[p]
           gone == conc.to_delete[p]
       IN /\ index' = [index EXCEPT ![ft] = DeleteSources(@, gone)]
          /\ conc' = [conc EXCEPT !.pc[p] = "phase3",
                                  !.deleted[p] = @ \cup gone]
    /\ UNCHANGED <<concFrame, ledger>>

\* phase 3 in process p
ConcPhase3(p) ==
    /\ conc.pc[p] = "phase3"
    /\ LET ft == conc.file_type[p]
           stored == conc.stored[p]
           todo == conc.to_index[p]
           pending == ProcessFiles(stored, stored, ft, todo, conc.clock)
           chunks == AllChunks(ft, todo)
           sources == SourcesToClear(chunks)
       IN /\ index' = IF chunks = {} THEN index
                      ELSE [index EXCEPT ![ft] =
                              AddDocuments(DeleteSources(@, sources), chunks)]
          /\ conc' = [conc EXCEPT
                        !.pc[p] = IF ft = "kb" THEN "phase1" ELSE "commit",
                        !.file_type[p] = "code",
                        !.written[p] =
                            @ \cup {r \in pending : r.file_path \in todo},
                        !.inserted[p] =
                            @ \cup {q \in todo : ~HasEntry(stored, q)}]
    /\ UNCHANGED <<concFrame, ledger>>

\* file_path is unique: the INSERT of a row fails when another transaction
\* has committed a row for the same path
UniqueViolation(p) ==
    \E q \in conc.inserted[p] : \E r \in ledger : r.file_path = q

\* db.session.commit() in process p, or the rollback of the except branch
\* when the flush raises
ConcCommit(p) ==
    /\ conc.pc[p] = "commit"
    /\ LET touched == conc.deleted[p]
                        \cup {r.file_path : r \in conc.written[p]}
           flushed == {r \in ledger : r.file_path \notin touched}
                        \cup conc.written[p]
       IN ledger' = IF UniqueViolation(p)
                    THEN ExceptHandler(ledger, flushed)
                    ELSE flushed
    /\ conc' = [conc EXCEPT !.pc[p] = "idle"]
    /\ UNCHANGED <<concFrame, index>>

ConcNext ==
    \E p \in Procs :
      \/ ConcConstruct(p)
      \/ ConcStartRun(p)
      \/ ConcPhase1(p)
      \/ ConcPhase2(p)
      \/ ConcPhase3(p)
      \/ ConcCommit(p)

ConcSpec == ConcInit /\ [][ConcNext]_vars

\* process p is inside the try block of update_vector_store
InProgress(p) == conc.pc[p] \in {"phase1", "phase2", "phase3", "commit"}

\* C17: at no time are two runs of update_vector_store in progress on the
\* same ledger and indexes: a run starts its scan, deletes and upserts only
\* when no other run is between its start and its commit or rollback.
C17_NoConcurrentRuns ==
    Cardinality({p \in Procs : InProgress(p)}) <= 1

(***************************************************************************)
(* Code-entity splitting: RAGService._split_code_into_chunks.  A source    *)
(* file is the sequence of the lines that splitlines() gives; the lines    *)
(* are strings, so that the declaration patterns are matched on the text.  *)
(***************************************************************************)
MaxLines == 3

Letters == "abcdefghijklmnopqrstuvwxyzABCDEFGHIJKLMNOPQRSTUVWXYZ"
Digits == "0123456789"
Whitespace == " \t"

\* the character of s at position p, "" outside of s
Ch(s, p) == IF p >= 1 /\ p <= Len(s) THEN SubSeq(s, p, p) ELSE ""

InClass(c, class) ==
    c # "" /\ \E j \in 1..Len(class) : SubSeq(class, j, j) = c

\* the number of characters of the class that s holds in a row from p on
RECURSIVE span(_, _, _)
span(s, p, class) ==
    IF InClass(Ch(s, p), class) THEN 1 + span(s, p + 1, class) ELSE 0

\* the word stands in s at position p
at(s, p, word) ==
    /\ p + Len(word) - 1 <= Len(s)
    /\ SubSeq(s, p, p + Len(word) - 1) = word

\* str.strip()
strip(s) ==
    LET kept == {i \in 1..Len(s) : ~InClass(Ch(s, i), Whitespace)}
    IN IF kept = {} THEN ""
       ELSE SubSeq(s, CHOOSE i \in kept : \A j \in kept : i <= j,
                      CHOOSE i \in kept : \A j \in kept : j <= i)

\* the position of the first occurrence of the character c in s from p on,
\* 0 when there is none
FirstAt(s, p, c) ==
    LET found == {i \in p..Len(s) : Ch(s, i) = c}
    IN IF found = {} THEN 0 ELSE CHOOSE i \in found : \A j \in found : i <= j

\* "\n".join(lines)
RECURSIVE newline_join(_)
newline_join(ls) ==
    IF ls = <<>> THEN ""
    ELSE IF Len(ls) = 1 THEN ls[1]
    ELSE ls[1] \o "\n" \o newline_join(Tail(ls))

\* ",".join(names)
RECURSIVE comma_join(_)
comma_join(ns) ==
    IF ns = <<>> THEN ""
    ELSE IF Len(ns) = 1 THEN ns[1]
    ELSE ns[1] \o "," \o comma_join(Tail(ns))

NoMatch == [matched |-> FALSE, entity_type |-> "", entity_name |-> ""]
Match(type, name) ==
    [matched |-> TRUE, entity_type |-> type, entity_name |-> name]

\* [a-zA-Z_][a-zA-Z0-9_]* at position p of s: its length, 0 when the
\* character at p cannot start an identifier
identifier(s, p) ==
    IF InClass(Ch(s, p), Letters \o "_")
    THEN span(s, p, Letters \o Digits \o "_")
    ELSE 0

\* keyword\s+identifier at position p of s: the identifier and the position
\* after it, or no match
KeywordIdentifier(s, p, keyword) ==
    LET ws == span(s, p + Len(keyword), Whitespace)
        q == p + Len(keyword) + ws
        n == identifier(s, q)
    IN IF at(s, p, keyword) /\ ws > 0 /\ n > 0
       THEN [matched |-> TRUE, name |-> SubSeq(s, q, q + n - 1), next |-> q + n]
       ELSE [matched |-> FALSE, name |-> "", next |-> 0]

\* (?:word\s+)? at position p of s: the position after it
Optional(s, p, word) ==
    LET ws == span(s, p + Len(word), Whitespace)
    IN IF at(s, p, word) /\ ws > 0 THEN p + Len(word) + ws ELSE p

\* func_class_pattern.match(line): the entity type that the code derives
\* from group 2 and the name of group 3
func_class_pattern(line) ==
    LET p == Optional(line, 1, "async")
        def == KeywordIdentifier(line, p, "def")
        class == KeywordIdentifier(line, p, "class")
        closes(m) ==
            InClass(Ch(line, m.next + span(line, m.next, Whitespace)), ":(")
    IN IF def.matched /\ closes(def) THEN Match("function", def.name)
       ELSE IF class.matched /\ closes(class) THEN Match("class", class.name)
       ELSE NoMatch

\* js_ts_entity_pattern.match(line.strip()) with the pair (entity_type,
\* entity_name) that the code reads off groups 1 to 5
js_ts_entity_pattern(line) ==
    LET s == strip(line)
        p == Optional(s, Optional(s, 1, "export"), "async")
        function == KeywordIdentifier(s, p, "function")
        class == KeywordIdentifier(s, p, "class")
        const == KeywordIdentifier(s, p, "const")
        let == KeywordIdentifier(s, p, "let")
        var == KeywordIdentifier(s, p, "var")
        interface == KeywordIdentifier(s, p, "interface")
        type == KeywordIdentifier(s, p, "type")
        equals(m) == Ch(s, m.next + span(s, m.next, Whitespace)) = "="
        value(m) == m.next + span(s, m.next, Whitespace) + 1
                      + span(s, m.next + span(s, m.next, Whitespace) + 1,
                             Whitespace)
        assigned(m) ==
            /\ m.matched
            /\ equals(m)
            /\ (at(s, value(m), "function") \/ at(s, value(m), "=>"))
    IN IF function.matched THEN Match("function", function.name)
       ELSE IF class.matched THEN Match("class", class.name)
       ELSE IF assigned(const) THEN Match("variable", const.name)
       ELSE IF assigned(let) THEN Match("variable", let.name)
       ELSE IF assigned(var) THEN Match("variable", var.name)
       ELSE IF interface.matched THEN Match("interface", interface.name)
       ELSE IF type.matched /\ equals(type) THEN Match("type", type.name)
       ELSE NoMatch

\* html_tag_pattern.match(line): group tag_name
html_tag_pattern(line) ==
    LET p == 1 + span(line, 1, Whitespace)
        n == span(line, p + 1, Letters \o Digits)
        q == p + 1 + n
    IN IF /\ Ch(line, p) = "<"
          /\ n > 0
          /\ \/ Ch(line, q) = ">"
             \/ /\ InClass(Ch(line, q), Whitespace)
                /\ FirstAt(line, q + 1, ">") # 0
       THEN Match("html_tag_block", SubSeq(line, p + 1, q - 1))
       ELSE NoMatch

BlockTags == {"html", "head", "body", "div", "section", "article", "nav",
              "header", "footer", "main"}

\* css_rule_pattern.match(line): group 1 stripped
css_rule_pattern(line) ==
    LET q == FirstAt(line, 1, "{")
        class == Letters \o Digits \o Whitespace \o ".#:,->[]()\"'=~"
    IN IF q >= 2 /\ \A i \in 1..(q - 1) : InClass(Ch(line, i), class)
       THEN Match("css_rule_block", strip(SubSeq(line, 1, q - 1)))
       ELSE NoMatch

\* yaml_top_level_key_pattern.match(line), and line.split(':')[0].strip()
yaml_top_level_key_pattern(line) ==
    LET n == IF InClass(Ch(line, 1), Letters \o "_")
             THEN 1 + span(line, 2, Letters \o Digits \o "_-")
             ELSE 0
    IN IF n > 0 /\ Ch(line, n + 1) = ":"
       THEN Match("yaml_block", strip(SubSeq(line, 1, n)))
       ELSE NoMatch

\* markdown_heading_pattern.match(line): the level is len(group(1)), the
\* heading text group(2).strip()
markdown_heading_pattern(line) ==
    LET level == span(line, 1, "#")
    IN IF level > 0
       THEN Match("markdown_heading_level_" \o ToString(level),
                  strip(SubSeq(line, level + 1, Len(line))))
       ELSE NoMatch

\* _detect_language: the entries of extension_map that the model draws
_detect_language(name) ==
    LET ext == lower(splitext_ext(name))
    IN CASE ext = ".py" -> "python"
         [] ext \in {".js", ".jsx"} -> "javascript"
         [] ext \in {".ts", ".tsx"} -> "typescript"
         [] ext = ".html" -> "html"
         [] ext \in {".css", ".less"} -> "css"
         [] ext \in {".yml", ".yaml"} -> "yaml"
         [] ext = ".md" -> "markdown"
         [] OTHER -> "none"

\* the line is one at which the ruleset of the language cuts
Declaration(language, line) ==
    CASE language = "python" -> func_class_pattern(line)
      [] language \in {"javascript", "typescript"} ->
           js_ts_entity_pattern(line)
      [] language = "html" ->
           IF html_tag_pattern(line).entity_name \in BlockTags
           THEN html_tag_pattern(line) ELSE NoMatch
      [] language = "css" -> css_rule_pattern(line)
      [] language = "yaml" ->
           IF ~startswith(line, " ")
           THEN yaml_top_level_key_pattern(line) ELSE NoMatch
      [] language = "markdown" -> markdown_heading_pattern(line)
      [] OTHER -> NoMatch

\* the import scan of the python ruleset: the modules named by the import
\* lines that open the file (blank lines and comments are passed over)
import_pattern(stripped) ==
    LET m == KeywordIdentifier(stripped, 1, "import")
    IN IF m.matched THEN {m.name} ELSE {}

RECURSIVE file_imports_list(_)
file_imports_list(ls) ==
    IF ls = <<>> THEN {}
    ELSE LET stripped == strip(Head(ls))
         IN IF stripped = "" \/ startswith(stripped, "#")
            THEN file_imports_list(Tail(ls))
            ELSE IF import_pattern(stripped) # {}
            THEN import_pattern(stripped) \cup file_imports_list(Tail(ls))
            ELSE IF startswith(stripped, "from")
                    \/ startswith(stripped, "import")
            THEN file_imports_list(Tail(ls))
            ELSE {}

\* list(set(...)): the names in some order, the order being the one of the
\* string hashes of the process
Orders(names) ==
    {o \in [1..Cardinality(names) -> names] :
       \A i, j \in DOMAIN o : i # j => o[i] # o[j]}

\* variant: the imports are written into the text of the chunk
Document_imports_in_content(content, type, name, imports, start, end) ==
    [page_content |-> imports \o "\n" \o newline_join(content),
     entity_type |-> type, entity_name |-> name, imports |-> imports,
     start_line |-> start, end_line |-> end]

\* Document(page_content="\n".join(current_chunk_content), metadata={...})
Document(content, type, name, imports, start, end) ==
    [page_content |-> newline_join(content),
     entity_type |-> type, entity_name |-> name, imports |-> imports,
     start_line |-> start, end_line |-> end]

\* current_chunk_metadata = {}
NoMetadata == [entity_type |-> "", entity_name |-> ""]
get(metadata, key, default) ==
    IF metadata = NoMetadata THEN default ELSE metadata[key]

\* the locals of a ruleset before its loop: current_chunk_content,
\* current_chunk_metadata, the current tag / selector / key / heading, the
\* start line of the current chunk and the chunks emitted so far
Locals(label) ==
    [content |-> <<>>, metadata |-> NoMetadata, label |-> label,
     start |-> 0, chunks |-> <<>>]

\* one turn of the loop "for i, line in enumerate(lines)" of a ruleset;
\* file is the basename of the path and the imports string
LoopBody(language, st, i, line, file) ==
    CASE language = "python" ->
           LET match == func_class_pattern(line)
               st1 == IF match.matched /\ st.content # <<>>
                      THEN [st EXCEPT
                              !.chunks = Append(@, Document(st.content,
                                  get(st.metadata, "entity_type",
                                      "module_top_level"),
                                  file.name, file.imports, st.start, i)),
                              !.content = <<>>,
                              !.metadata = NoMetadata]
                      ELSE st
               st2 == IF match.matched
                      THEN [st1 EXCEPT
                              !.metadata =
                                  [entity_type |-> match.entity_type,
                                   entity_name |-> match.entity_name],
                              !.start = i]
                      ELSE st1
           IN [st2 EXCEPT !.content = Append(@, line)]
      [] language \in {"javascript", "typescript"} ->
           LET match == js_ts_entity_pattern(line)
               st1 == IF match.matched /\ st.content # <<>>
                      THEN [st EXCEPT
                              !.chunks = Append(@, Document(st.content,
                                  get(st.metadata, "entity_type",
                                      "module_top_level_segment"),
                                  get(st.metadata, "entity_name", file.name),
                                  file.imports, st.start, i)),
                              !.content = <<>>,
                              !.metadata =
                                  [entity_type |-> match.entity_type,
                                   entity_name |-> match.entity_name],
                              !.start = i]
                      ELSE st
           IN [st1 EXCEPT !.content = Append(@, line)]
      [] language = "html" ->
           LET match == html_tag_pattern(line)
               st1 == IF /\ match.matched
                         /\ match.entity_name \in BlockTags
                         /\ st.content # <<>>
                      THEN [st EXCEPT
                              !.chunks = Append(@, Document(st.content,
                                  "html_tag_block", st.label, file.imports,
                                  st.start, i)),
                              !.content = <<>>,
                              !.start = i]
                      ELSE st
               st2 == IF match.matched
                      THEN [st1 EXCEPT !.label = match.entity_name]
                      ELSE st1
           IN [st2 EXCEPT !.content = Append(@, line)]
      [] language = "css" ->
           LET match == css_rule_pattern(line)
               st1 == IF match.matched /\ st.content # <<>>
                      THEN [st EXCEPT
                              !.chunks = Append(@, Document(st.content,
                                  "css_rule_block", st.label, file.imports,
                                  st.start, i)),
                              !.content = <<>>,
                              !.start = i]
                      ELSE st
               st2 == IF match.matched
                      THEN [st1 EXCEPT !.label = match.entity_name]
                      ELSE st1
           IN [st2 EXCEPT !.content = Append(@, line)]
      [] language = "yaml" ->
           LET match == yaml_top_level_key_pattern(line)
               st1 == IF /\ match.matched
                         /\ ~startswith(line, " ")
                         /\ st.content # <<>>
                      THEN [st EXCEPT
                              !.chunks = Append(@, Document(st.content,
                                  "yaml_block", st.label, "", st.start, i)),
                              !.content = <<>>,
                              !.start = i,
                              !.label = match.entity_name]
                      ELSE st
           IN [st1 EXCEPT !.content = Append(@, line)]
      [] language = "markdown" ->
           LET match == markdown_heading_pattern(line)
               st1 == IF match.matched /\ st.content # <<>>
                      THEN [st EXCEPT
                              !.chunks = Append(@, Document(st.content,
                                  match.entity_type, st.label, "",
                                  st.start, i)),
                              !.content = <<>>,
                              !.start = i,
                              !.label = match.entity_name]
                      ELSE st
           IN [st1 EXCEPT !.content = Append(@, line)]

RECURSIVE Loop(_, _, _, _, _)
Loop(language, lines, i, st, file) ==
    IF i >= Len(lines) THEN st
    ELSE Loop(language, lines, i + 1,
              LoopBody(language, st, i, lines[i + 1], file), file)

\* "if current_chunk_content:" after the loop of a ruleset
Remaining(language, lines, st, file) ==
    IF st.content = <<>> THEN st.chunks
    ELSE Append(st.chunks,
           CASE language = "python" ->
                  Document(st.content,
                           get(st.metadata, "entity_type", "module_remaining"),
                           file.name, file.imports, st.start, Len(lines) - 1)
             [] language \in {"javascript", "typescript"} ->
                  Document(st.content,
                           get(st.metadata, "entity_type",
                               "module_remaining_segment"),
                           file.name, file.imports, st.start, Len(lines) - 1)
             [] language = "html" ->
                  Document(st.content, "html_tag_remaining", st.label,
                           file.imports, st.start, Len(lines) - 1)
             [] language = "css" ->
                  Document(st.content, "css_rule_remaining", st.label,
                           file.imports, st.start, Len(lines) - 1)
             [] language = "yaml" ->
                  Document(st.content, "yaml_block_remaining", st.label,
                           "", st.start, Len(lines) - 1)
             [] language = "markdown" ->
                  Document(st.content, "markdown_section_remaining",
                           st.label, "", st.start, Len(lines) - 1))

\* what current_tag, current_selector, current_key and current_heading are
\* before the loop
FirstLabel(language) ==
    CASE language = "html" -> "document_root"
      [] language = "css" -> "document_styles"
      [] language = "yaml" -> "document_root"
      [] language = "markdown" -> "document_top"
      [] OTHER -> ""

\* _split_code_into_chunks(code_content, file_path, language); order is the
\* order in which list(set(file_imports_list)) gives the imports
_split_code_into_chunks(lines, name, language, order) ==
    LET file == [name |-> name,
                 imports |-> IF language = "python"
                             THEN comma_join(order) ELSE ""]
    IN Remaining(language, lines,
                 Loop(language, lines, 0, Locals(FirstLabel(language)), file),
                 file)

\* the source files of the model: one name for every ruleset, and the lines
\* a file of the language is made of
SourceNames == {"a.py", "a.js", "a.ts", "a.html", "a.css", "a.yml", "a.md"}

LinesOf(language) ==
    CASE language = "python" ->
           {"import os", "import re", "def f():", "class A:", "    x = 1", ""}
      [] language \in {"javascript", "typescript"} ->
           {"function f() {", "  class A {", "const g = function () {",
            "  return 1;", ""}
      [] language = "html" ->
           {"<html>", "<div id=a>", "<p>text</p>", "text", ""}
      [] language = "css" ->
           {".a {", "h1, h2 {", "  color: red;", "}", ""}
      [] language = "yaml" ->
           {"name: x", "deps:", "  key: v", "  - a", ""}
      [] language = "markdown" ->
           {"# T", "## S", "text", ""}

RECURSIVE LineSeqs(_, _)
LineSeqs(alphabet, n) ==
    IF n = 0 THEN {<<>>}
    ELSE LET shorter == LineSeqs(alphabet, n - 1)
         IN shorter \cup {Append(ls, l) : ls \in shorter, l \in alphabet}

ChunkerInputs ==
    UNION {{[pc |-> "read", name |-> n, language |-> _detect_language(n),
             lines |-> ls, chunks |-> <<>>, again |-> <<>>] :
               ls \in LineSeqs(LinesOf(_detect_language(n)), MaxLines)} :
             n \in SourceNames}

ChunkInit ==
    /\ Parked
    /\ meta = Off
    /\ startup = Off
    /\ conc = Off
    /\ sheet = Off
    /\ web = Off
    /\ chunker \in ChunkerInputs

\* the file is read and split (_process_documents, the code branch)
SplitCodeIntoChunks ==
    /\ chunker.pc = "read"
    /\ \E order \in Orders(file_imports_list(chunker.lines)) :
         chunker' = [chunker EXCEPT
                       !.pc = "split",
                       !.chunks = _split_code_into_chunks(chunker.lines,
                                      chunker.name, chunker.language, order)]
    /\ UNCHANGED <<pipeline, meta, startup, conc, sheet, web>>

\* the same content at the same path is split once more, by this process
\* or by another one
SplitCodeIntoChunksAgain ==
    /\ chunker.pc = "split"
    /\ \E order \in Orders(file_imports_list(chunker.lines)) :
         chunker' = [chunker EXCEPT
                       !.pc = "again",
                       !.again = _split_code_into_chunks(chunker.lines,
                                     chunker.name, chunker.language, order)]
    /\ UNCHANGED <<pipeline, meta, startup, conc, sheet, web>>

ChunkNext == SplitCodeIntoChunks \/ SplitCodeIntoChunksAgain

ChunkSpec == ChunkInit /\ [][ChunkNext]_vars

\* the file has been split
Split == chunker.pc \in {"split", "again"}

\* the lines of the content of a chunk: page_content.splitlines(), a chunk
\* of one blank line counted as one line
RECURSIVE CountNewlines(_)
CountNewlines(s) ==
    IF s = "" THEN 0
    ELSE (IF Head(s) = "\n" THEN 1 ELSE 0) + CountNewlines(Tail(s))

NumberOfLines(chunk) == 1 + CountNewlines(chunk.page_content)

\* the index in the file of the first line of the k-th chunk, the chunks
\* taken as consecutive runs of lines
RECURSIVE FirstLineOf(_, _)
FirstLineOf(chunks, k) ==
    IF k = 1 THEN 0
    ELSE FirstLineOf(chunks, k - 1) + NumberOfLines(chunks[k - 1])

FirstLine(k) == chunker.lines[FirstLineOf(chunker.chunks, k) + 1]

IsModuleLevel(type) ==
    type \in {"module_top_level", "module_remaining",
              "module_top_level_segment", "module_remaining_segment"}

\* C23: for a language with a ruleset, a new chunk starts at every line that
\* matches a declaration pattern, and every emitted chunk carries the entity
\* type and the entity name of the declaration that opens it, a module-level
\* label being used only for a chunk that starts with no declaration.
C23_EntityLabelling ==
    Split =>
      /\ \A i \in 1..(Len(chunker.lines) - 1) :
           Declaration(chunker.language, chunker.lines[i + 1]).matched =>
             \E k \in DOMAIN chunker.chunks :
               FirstLineOf(chunker.chunks, k) = i
      /\ chunker.language \in {"python", "javascript", "typescript"} =>
           \A k \in DOMAIN chunker.chunks :
             LET opening == Declaration(chunker.language, FirstLine(k))
                 chunk == chunker.chunks[k]
             IN IF opening.matched
                THEN /\ chunk.entity_type = opening.entity_type
                     /\ chunk.entity_name = opening.entity_name
                ELSE IsModuleLevel(chunk.entity_type)

\* C24: for every chunk of a code-entity ruleset, start_line is the index of
\* the first line of the chunk and end_line the index of its last line, so
\* that end_line - start_line + 1 is the number of lines of the chunk and
\* the ranges of consecutive chunks do not overlap.
C24_LineRange ==
    Split =>
      /\ \A k \in DOMAIN chunker.chunks :
           LET chunk == chunker.chunks[k]
           IN /\ chunk.start_line = FirstLineOf(chunker.chunks, k)
              /\ chunk.end_line = chunk.start_line + NumberOfLines(chunk) - 1
      /\ \A k \in 1..(Len(chunker.chunks) - 1) :
           chunker.chunks[k].end_line < chunker.chunks[k + 1].start_line

\* the boundaries of a list of chunks: contents and line ranges
Boundaries(chunks) ==
    [k \in DOMAIN chunks |->
       <<chunks[k].page_content, chunks[k].start_line, chunks[k].end_line>>]

C30_ChunksPartitionFile ==
    Split =>
      /\ newline_join([k \in DOMAIN chunker.chunks |->
                         chunker.chunks[k].page_content])
           = newline_join(chunker.lines)
      /\ \A k \in DOMAIN chunker.chunks : chunker.chunks[k].page_content # ""

(***************************************************************************)
(* Spreadsheets: the .xlsx / .ods branch of RAGService._load_document and   *)
(* the kb branch of phase 3 of _process_documents.  A workbook is the       *)
(* sequence of its sheets, a sheet a name and the rows of its cells.        *)
(***************************************************************************)
MaxDataRows == 50

CHUNK_SIZE == 1000

\* "\t".join(row_values)
RECURSIVE tab_join(_)
tab_join(cells) ==
    IF cells = <<>> THEN ""
    ELSE IF Len(cells) = 1 THEN cells[1]
    ELSE cells[1] \o "\t" \o tab_join(Tail(cells))

HeaderRow == <<"name", "unit", "price">>
DataRows == {<<"1", "2", "3">>, <<"steel bolt", "per hundred", "12.50 EUR">>}

\* the sheets of the model: one without any row, and tables of a header row
\* and up to MaxDataRows equal data rows
TableSheets ==
    {[sheet_name |-> "S1", rows |-> <<>>]} \cup
    {[sheet_name |-> "S1",
      rows |-> <<HeaderRow>> \o [i \in 1..n |-> row]] :
        n \in 0..MaxDataRows, row \in DataRows}

Workbooks ==
    {<<s>> : s \in TableSheets} \cup
    {<<s, [sheet_name |-> "S2", rows |-> <<HeaderRow, <<"1", "2", "3">>>>]>> :
       s \in TableSheets}

\* the loop over the sheets of _load_document: one Document for every sheet
\* that has a row
RECURSIVE docs_for_file(_)
docs_for_file(workbook) ==
    IF workbook = <<>> THEN <<>>
    ELSE LET s == Head(workbook)
             sheet_rows_data == [i \in DOMAIN s.rows |-> tab_join(s.rows[i])]
         IN (IF sheet_rows_data # <<>>
             THEN <<[page_content |-> "Feuille: " \o s.sheet_name \o "\n"
                                        \o newline_join(sheet_rows_data),
                     file_type |-> "kb",
                     sheet_name |-> s.sheet_name,
                     is_table_chunk |-> TRUE]>>
             ELSE <<>>) \o docs_for_file(Tail(workbook))

\* the kb branch of phase 3: a document flagged is_table_chunk is kept whole
final_chunks_for_file(loaded_docs) ==
    SelectSeq(loaded_docs, LAMBDA doc : doc.is_table_chunk)

SheetInit ==
    /\ Parked
    /\ meta = Off
    /\ startup = Off
    /\ conc = Off
    /\ chunker = Off
    /\ web = Off
    /\ sheet \in {[pc |-> "file", workbook |-> w, loaded_docs |-> <<>>,
                   chunks |-> <<>>] : w \in Workbooks}

\* _load_document(file_path) on an .xlsx or .ods file
LoadDocument ==
    /\ sheet.pc = "file"
    /\ sheet' = [sheet EXCEPT !.pc = "loaded",
                              !.loaded_docs = docs_for_file(sheet.workbook)]
    /\ UNCHANGED <<pipeline, meta, startup, conc, chunker, web>>

\* phase 3 of _process_documents for the loaded documents of a kb file
ChunkLoadedDocs ==
    /\ sheet.pc = "loaded"
    /\ sheet' = [sheet EXCEPT
                   !.pc = "chunked",
                   !.chunks = final_chunks_for_file(sheet.loaded_docs)]
    /\ UNCHANGED <<pipeline, meta, startup, conc, chunker, web>>

SheetNext == LoadDocument \/ ChunkLoadedDocs

SheetSpec == SheetInit /\ [][SheetNext]_vars

\* the chunks made of the sheet
ChunksOfSheet(s) ==
    SelectSeq(sheet.chunks, LAMBDA c : c.sheet_name = s.sheet_name)

\* the text of the rows of the sheet
TableText(s) == newline_join([i \in DOMAIN s.rows |-> tab_join(s.rows[i])])

\* the content begins with the header row, the title line of the sheet
\* allowed before it
BeginsWithHeader(content, s) ==
    \/ startswith(content, tab_join(s.rows[1]) \o "\n")
    \/ startswith(content, "Feuille: " \o s.sheet_name \o "\n"
                             \o tab_join(s.rows[1]) \o "\n")

\* C25: a sheet with a header row and many data rows (more text than one
\* chunk of the configured size holds) is split into groups of data rows,
\* and the content of every resulting chunk begins with the same header
\* block.
C25_TableChunking ==
    sheet.pc = "chunked" =>
      \A k \in DOMAIN sheet.workbook :
        LET s == sheet.workbook[k]
        IN (Len(s.rows) > 1 /\ Len(TableText(s)) > CHUNK_SIZE) =>
             /\ Len(ChunksOfSheet(s)) > 1
             /\ \A j \in DOMAIN ChunksOfSheet(s) :
                  /\ BeginsWithHeader(ChunksOfSheet(s)[j].page_content, s)
                  /\ Len(ChunksOfSheet(s)[j].page_content) <= CHUNK_SIZE

(***************************************************************************)
(* The conversation routes of chat_bp (app/routes/chat_routes.py) and      *)
(* save_message (app/services/conversation_service.py).  The server of     *)
(* run.py handles every request in a thread of its own, each with its own  *)
(* db.session on the same database; a commit is one step.  Ids are written *)
(* as strings.                                                             *)
(***************************************************************************)
\* bound: number of requests the server receives
MaxWebRequests == 3

\* the threads that handle requests at the same time
Clients == {1, 2}

\* the names a POST /conversations can carry, None for a missing name
ConvNames == {"a", "b", "c", "d", "e"}

\* the values of conversation_id in the JSON of a POST /chat: integers,
\* true, strings, a number with a fraction, and null or no key at all
ConversationIds ==
    {[type |-> "int", value |-> "1"], [type |-> "int", value |-> "2"],
     [type |-> "bool", value |-> "True"],
     [type |-> "str", value |-> "new_ephemeral_session_request"],
     [type |-> "str", value |-> "1"],
     [type |-> "float", value |-> "1.5"],
     [type |-> "null", value |-> None]}

\* variant: every id but null is taken for a persistent conversation
isinstance_int_or_any(v) == v.type # "null"

\* isinstance(conv_id_from_request, int): bool is a subclass of int
isinstance_int(v) == v.type \in {"int", "bool"}

\* a thread between two requests, with the answer to its last request
Answered(route, arg, kind, seen, saved, status) ==
    [pc |-> "idle", route |-> route, arg |-> arg, kind |-> kind,
     seen |-> seen, saved |-> saved, status |-> status]

WebInit ==
    /\ Parked
    /\ meta = Off
    /\ startup = Off
    /\ conc = Off
    /\ chunker = Off
    /\ sheet = Off
    /\ \E n \in 0..3 :
         web = [conversations |->
                  {[id |-> ToString(i), name |-> SubSeq("abc", i, i)] :
                     i \in 1..n},
                next_id |-> n + 1,
                messages |-> << >>,
                requests |-> 0,
                thread |-> [t \in Clients |->
                              Answered("none", None, "none", 0, << >>, 0)]]

\* create_conversation up to the test of the count: 400 without a name or
\* with three conversations, else the new row waits for its commit
CreateConversation(t) ==
    /\ web.thread[t].pc = "idle"
    /\ web.requests < MaxWebRequests
    /\ \E name \in ConvNames \cup {None} :
         LET existing_conversations_count == Cardinality(web.conversations)
             refused == name = None \/ existing_conversations_count >= 3
         IN web' = [web EXCEPT
                      !.requests = @ + 1,
                      !.thread[t] =
                        IF refused
                        THEN Answered("create_conversation", name, "refused",
                                      existing_conversations_count, << >>, 400)
                        ELSE [Answered("create_conversation", name, "added",
                                       existing_conversations_count, << >>, 0)
                                EXCEPT !.pc = "commit"]]
    /\ UNCHANGED <<pipeline, meta, startup, conc, chunker, sheet>>

\* db.session.add(new_conv); db.session.commit(): 201, or the rollback and
\* 500 when the name is taken (the column is unique)
CommitConversation(t) ==
    /\ web.thread[t].pc = "commit"
    /\ LET name == web.thread[t].arg
           taken == \E c \in web.conversations : c.name = name
       IN web' = IF taken
                 THEN [web EXCEPT !.thread[t].pc = "idle",
                                  !.thread[t].kind = "raised",
                                  !.thread[t].status = 500]
                 ELSE [web EXCEPT
                         !.conversations =
                            @ \cup {[id |-> ToString(web.next_id),
                                     name |-> name]},
                         !.next_id = @ + 1,
                         !.thread[t].pc = "idle",
                         !.thread[t].status = 201]
    /\ UNCHANGED <<pipeline, meta, startup, conc, chunker, sheet>>

\* delete_conversation: 404 for an unknown id, else the row goes with its
\* messages (cascade="all, delete-orphan")
DeleteConversation(t) ==
    /\ web.thread[t].pc = "idle"
    /\ web.requests < MaxWebRequests
    /\ \E conv_id \in {"1", "2", "3", "4"} :
         LET found == \E c \in web.conversations : c.id = conv_id
         IN web' = [web EXCEPT
                      !.requests = @ + 1,
                      !.conversations = {c \in @ : c.id # conv_id},
                      !.messages =
                         SelectSeq(@, LAMBDA m : m.conversation_id # conv_id),
                      !.thread[t] =
                         Answered("delete_conversation", conv_id,
                                  IF found THEN "deleted" ELSE "unknown",
                                  0, << >>, IF found THEN 200 ELSE 404)]
    /\ UNCHANGED <<pipeline, meta, startup, conc, chunker, sheet>>

\* chat() up to the save: the body is not a JSON object (400); the query of
\* load_conversation_history raises for an id the database does not take as
\* an integer (500); the code_rag request without a project returns early;
\* an exception in the try block gives 500; else the answer is computed and
\* the save follows for an integer id
Chat(t) ==
    /\ web.thread[t].pc = "idle"
    /\ web.requests < MaxWebRequests
    /\ \E v \in ConversationIds,
          kind \in {"malformed", "early", "raised", "answered"} :
         LET ends == IF kind = "malformed" THEN 400
                     ELSE IF isinstance_int(v) /\ v.type = "bool" THEN 500
                     ELSE IF kind = "early" THEN 200
                     ELSE IF kind = "raised" THEN 500
                     ELSE IF isinstance_int(v) THEN 0
                     ELSE 200
         IN web' = [web EXCEPT
                      !.requests = @ + 1,
                      !.thread[t] =
                        IF ends = 0
                        THEN [Answered("chat", v, kind, 0, << >>, 0)
                                EXCEPT !.pc = "save_user"]
                        ELSE Answered("chat", v,
                                      IF ends = 500 THEN "raised" ELSE kind,
                                      0, << >>, ends)]
    /\ UNCHANGED <<pipeline, meta, startup, conc, chunker, sheet>>

\* save_message(conv_id_from_request, sender, ...): the insert and its
\* commit; the foreign key raises when the conversation is gone, and the
\* except clause of chat() answers 500.  The user message is saved first,
\* the response of the bot second, then chat() returns
SaveMessage(t) ==
    /\ web.thread[t].pc \in {"save_user", "save_bot"}
    /\ LET sender == IF web.thread[t].pc = "save_user" THEN "user" ELSE "bot"
           conversation_id == web.thread[t].arg.value
           new_message == [conversation_id |-> conversation_id,
                           sender |-> sender]
       IN web' = IF \E c \in web.conversations : c.id = conversation_id
                 THEN [web EXCEPT
                         !.messages = Append(@, new_message),
                         !.thread[t].saved = Append(@, new_message),
                         !.thread[t].pc = IF sender = "user"
                                          THEN "save_bot" ELSE "idle",
                         !.thread[t].status = IF sender = "user"
                                              THEN 0 ELSE 200]
                 ELSE [web EXCEPT !.thread[t].pc = "idle",
                                  !.thread[t].kind = "raised in save",
                                  !.thread[t].status = 500]
    /\ UNCHANGED <<pipeline, meta, startup, conc, chunker, sheet>>

WebNext ==
    \E t \in Clients :
      \/ CreateConversation(t)
      \/ CommitConversation(t)
      \/ DeleteConversation(t)
      \/ Chat(t)
      \/ SaveMessage(t)

WebSpec == WebInit /\ [][WebNext]_vars

\* C32: after any sequence of POST /conversations and DELETE
\* /conversations/<id> requests, concurrent ones included, there are never
\* more than 3 persistent conversations, and a create request that finds 3
\* of them is answered 400 and adds no row.
C32_ConversationLimit ==
    /\ Cardinality(web.conversations) <= 3
    /\ \A t \in Clients :
         (web.thread[t].route = "create_conversation"
            /\ web.thread[t].seen >= 3) =>
           /\ web.thread[t].pc = "idle"
           /\ web.thread[t].status = 400

\* the thread has answered a POST /chat
ChatAnswered(t) ==
    web.thread[t].pc = "idle" /\ web.thread[t].route = "chat"

\* C33: a POST /chat that completes with an integer conversation_id appends
\* exactly two messages to that conversation, the message of the user and
\* then the response of the bot; a request with any other conversation_id
\* (absent, 'new_ephemeral_session_request', another value that is not an
\* integer), and one that returns early or fails before the save, appends
\* no message.
C33_ChatPersistence ==
    \A t \in Clients :
      ChatAnswered(t) =>
        LET r == web.thread[t]
        IN /\ (r.status = 200 /\ r.kind = "answered" /\ r.arg.type = "int") =>
                r.saved = <<[conversation_id |-> r.arg.value,
                             sender |-> "user"],
                            [conversation_id |-> r.arg.value,
                             sender |-> "bot"]>>
           /\ (r.arg.type # "int"
                 \/ r.kind \in {"malformed", "early", "raised"}) =>
                r.saved = << >>

\* a chat with an integer id saved its two messages, and a chat with a
\* string id was answered
C33_Witness ==
    /\ \E t \in Clients :
         /\ ChatAnswered(t)
         /\ web.thread[t].status = 200
         /\ Len(web.thread[t].saved) = 2
         /\ Len(web.messages) >= 2
    /\ \E t \in Clients :
         /\ ChatAnswered(t)
         /\ web.thread[t].arg.type = "str"
         /\ web.thread[t].kind = "answered"

====
